---------------------------- MODULE Spec2Model ----------------------------
(***************************************************************************)
(* yakyuu: game-event ingestion and aggregation.                           *)
(*                                                                         *)
(* Four layers of the repository are modelled:                             *)
(*   - the text layer of Final/imports/eventfiles.py (parse_result,        *)
(*     parse_event_row, parse_event_table): SpecRow, SpecBases, SpecTable; *)
(*   - the chronology loop of parse_playbyplay_from_url: SpecChron on a    *)
(*     short document of any elements, SpecInnings on the half-innings of  *)
(*     a game in their order, SpecBlocks on blocks given by their text and *)
(*     links (map_inning_notation, classify_table,                         *)
(*     parse_pitching_announcement), SpecOrder on the loop followed by     *)
(*     upsert_events;                                                      *)
(*   - the SQLite stores (event, batting, pitching) and the handlers that  *)
(*     write them, each handler one step: upsert_events,                   *)
(*     insert_batting_data, insert_pitching_data, the two aggregators'     *)
(*     aggregate_and_update, and the driver unified_parser.py              *)
(*     (parse_game_data, main): Spec; main() over a batch of URLs with     *)
(*     faults: SpecBatch; two runs of main() at the same time: SpecPar;    *)
(*     the batting aggregation on its own: SpecAgg;                        *)
(*   - the same writes of the summary tables statement by statement, on    *)
(*     the handler's own connection, with a concurrent reader: SpecTxn.    *)
(*                                                                         *)
(* Texts are sequences of words.  A Python test  '<pattern>' in text  is   *)
(* modelled by Contains(pattern, text): some word of the text has the      *)
(* pattern as a substring (Substrings).  Japanese words are written in     *)
(* romaji, with the original in a comment where the word is introduced.    *)
(***************************************************************************)
EXTENDS Integers, Sequences, FiniteSets, TLC

\* Python's None and SQL's NULL.
NULL == "NULL"

-----------------------------------------------------------------------------
(* Bounds of the model *)

\* longest event list of one play-by-play document
MaxEvents == 2
\* longest outcome text, in words
MaxWords == 2
\* most rows of one event table
MaxRows == 3
\* longest block stream of one play-by-play document
MaxBlocks == 3
\* most URLs of one run of main()
MaxUrls == 2

-----------------------------------------------------------------------------
(* Result Text Interpreter: eventfiles.py parse_result *)

\* The outcome flags of an event, in the order of the result dictionary.
Flags ==
    {"h", "rbi", "1b", "2b", "3b", "hr", "gb", "fb", "k", "roe", "bb", "hbp", "gdp", "sac"}

\* The words outcome texts are built from.
\*   sanshin 三振, furinige 振り逃げ, yonkyuu 四球, foabooru フォアボール,
\*   shikyuu 死球, deddobooru デッドボール, gida 犠打, gisei 犠牲, gihi 犠飛,
\*   giseifurai 犠牲フライ, naiyaanda 内野安打, anda 安打, hitto ヒット,
\*   niruida 二塁打, tsuubeesu ツーベース, sanruida 三塁打, suriibeesu スリーベース,
\*   honruida 本塁打, hoomuran ホームラン, heisatsu 併殺, heisatsuda 併殺打,
\*   goro ゴロ, furai フライ, eraa エラー, yasen 野選, daten 打点 (RBI token
\*   without digits), datenN 打点N, sahi 左飛 (a word no rule matches),
\*   tochuushuuryou 途中終了, tochuukoutai 途中交代.
RbiWords == {"daten1", "daten2", "daten3"}

\* The patterns that occur in a word as substrings.
Substrings(w) ==
    CASE w = "naiyaanda"  -> {"naiyaanda", "anda"}
      [] w = "heisatsuda" -> {"heisatsuda", "heisatsu"}
      [] w = "giseifurai" -> {"gisei", "furai"}
      [] w \in RbiWords   -> {w, "daten"}
      [] OTHER            -> {w}

\* '<pattern>' in text
Contains(pattern, text) ==
    \E i \in DOMAIN text : pattern \in Substrings(text[i])

ContainsAny(patterns, text) ==
    \E p \in patterns : Contains(p, text)

\* The digits that follow the RBI token in a word: the group of 打点(\d+).
RbiDigits(w) ==
    CASE w = "daten1" -> 1
      [] w = "daten2" -> 2
      [] w = "daten3" -> 3

\* re.search(r'打点(\d+)', result_text): the place of the first match, 0
\* when there is none.
RbiMatch(text) ==
    IF \E i \in DOMAIN text : text[i] \in RbiWords
    THEN CHOOSE j \in DOMAIN text :
             /\ text[j] \in RbiWords
             /\ \A l \in DOMAIN text : text[l] \in RbiWords => j <= l
    ELSE 0

ZeroResult == [f \in Flags |-> 0]

\* result[f1] = 1 (and result[f2] = v2 ...): the assignments of one branch.
Assign(result, pairs) ==
    [f \in Flags |-> IF \E p \in pairs : p[1] = f
                     THEN (CHOOSE p \in pairs : p[1] = f)[2]
                     ELSE result[f]]

\* The rules of the if/elif chain of the primary outcome category, in the
\* order of the code: the patterns tested and the assignments of the branch.
PrimaryRules ==
    << [patterns |-> {"sanshin", "K", "furinige"},     sets |-> {<<"k", 1>>}],
       [patterns |-> {"yonkyuu", "foabooru", "BB"},    sets |-> {<<"bb", 1>>}],
       [patterns |-> {"shikyuu", "deddobooru", "HBP"}, sets |-> {<<"hbp", 1>>}],
       [patterns |-> {"gida", "SH", "gisei"},          sets |-> {<<"sac", 1>>}],
       [patterns |-> {"gihi", "SF"},                   sets |-> {<<"sac", 1>>, <<"rbi", 1>>}],
       [patterns |-> {"naiyaanda"},                    sets |-> {<<"h", 1>>, <<"1b", 1>>}],
       [patterns |-> {"anda", "hitto"},                sets |-> {<<"h", 1>>, <<"1b", 1>>}],
       [patterns |-> {"niruida", "tsuubeesu"},         sets |-> {<<"h", 1>>, <<"2b", 1>>}],
       [patterns |-> {"sanruida", "suriibeesu"},       sets |-> {<<"h", 1>>, <<"3b", 1>>}],
       [patterns |-> {"honruida", "hoomuran"},         sets |-> {<<"h", 1>>, <<"hr", 1>>, <<"rbi", 1>>}],
       [patterns |-> {"heisatsu", "heisatsuda", "DP"}, sets |-> {<<"gdp", 1>>}],
       [patterns |-> {"goro"},                         sets |-> {<<"gb", 1>>}],
       [patterns |-> {"furai"},                        sets |-> {<<"fb", 1>>}] >>

\* The rules whose patterns occur in the text.
MatchingRules(text) ==
    {i \in DOMAIN PrimaryRules : ContainsAny(PrimaryRules[i].patterns, text)}

\* The chain written with independent ifs: every matching rule assigns.
PrimaryResultIndependentIfs(text) ==
    Assign(ZeroResult, UNION {PrimaryRules[i].sets : i \in MatchingRules(text)})

\* The if/elif chain: the first rule whose patterns occur in the text decides.
PrimaryResult(text) ==
    IF MatchingRules(text) = {} THEN ZeroResult
    ELSE LET first == CHOOSE i \in MatchingRules(text) :
                          \A j \in MatchingRules(text) : i <= j
         IN  Assign(ZeroResult, PrimaryRules[first].sets)

\* The error check, independent of the primary category.
ErrorCheck(result, text) ==
    IF Contains("eraa", text) THEN Assign(result, {<<"roe", 1>>})
    ELSE IF Contains("yasen", text) THEN Assign(result, {<<"roe", 1>>})
    ELSE result

\* The RBI check that keeps a default the primary category has set.
RbiCheckKeepDefault(result, text) ==
    IF RbiMatch(text) # 0 /\ result.rbi = 0
    THEN Assign(result, {<<"rbi", RbiDigits(text[RbiMatch(text)])>>})
    ELSE result

\* The explicit RBI count overrides the default of the primary category.
RbiCheck(result, text) ==
    IF RbiMatch(text) # 0 THEN Assign(result, {<<"rbi", RbiDigits(text[RbiMatch(text)])>>})
    ELSE result

\* parse_result whose chain lets the last rule that matches decide.
parse_result_last_rule(result_text) ==
    IF result_text = << >> THEN << >>
    ELSE LET primary ==
                 IF MatchingRules(result_text) = {} THEN ZeroResult
                 ELSE LET last == CHOOSE i \in MatchingRules(result_text) :
                                      \A j \in MatchingRules(result_text) : j <= i
                      IN  Assign(ZeroResult, PrimaryRules[last].sets)
         IN  RbiCheck(ErrorCheck(primary, result_text), result_text)

\* parse_result: the empty dictionary for an empty text, else the flags.
parse_result(result_text) ==
    IF result_text = << >> THEN << >>
    ELSE RbiCheck(ErrorCheck(PrimaryResult(result_text), result_text), result_text)

\* result.get(f, 0)
ResultGet(result, f) ==
    IF f \in DOMAIN result THEN result[f] ELSE 0

-----------------------------------------------------------------------------
(* Event Extractor: eventfiles.py parse_on_base, parse_count,
   parse_event_row, parse_event_table *)

\* Base-state words: manrui 満塁, 1-2rui 1・2塁, 1-3rui 1・3塁, 2-3rui 2・3塁,
\* 1rui 1塁, 2rui 2塁, 3rui 3塁.  The patterns a base-state word holds as
\* substrings: '1・2塁' holds '2塁' but not '1塁'.
BaseSubstrings(w) ==
    CASE w = "1-2rui" -> {"1-2rui", "2rui"}
      [] w = "1-3rui" -> {"1-3rui", "3rui"}
      [] w = "2-3rui" -> {"2-3rui", "3rui"}
      [] OTHER        -> {w}

\* parse_on_base with the single-runner checks before the others.
parse_on_base_singles_first(bases_text) ==
    IF bases_text = "" THEN NULL
    ELSE IF "1rui"   \in BaseSubstrings(bases_text) THEN "1B"
    ELSE IF "2rui"   \in BaseSubstrings(bases_text) THEN "2B"
    ELSE IF "3rui"   \in BaseSubstrings(bases_text) THEN "3B"
    ELSE IF "manrui" \in BaseSubstrings(bases_text) THEN "123B"
    ELSE IF "1-2rui" \in BaseSubstrings(bases_text) THEN "12B"
    ELSE IF "1-3rui" \in BaseSubstrings(bases_text) THEN "13B"
    ELSE IF "2-3rui" \in BaseSubstrings(bases_text) THEN "23B"
    ELSE NULL

\* parse_on_base: NULL for an empty text, else the first mapping that occurs.
parse_on_base(bases_text) ==
    IF bases_text = "" THEN NULL
    ELSE IF "manrui" \in BaseSubstrings(bases_text) THEN "123B"
    ELSE IF "1-2rui" \in BaseSubstrings(bases_text) THEN "12B"
    ELSE IF "1-3rui" \in BaseSubstrings(bases_text) THEN "13B"
    ELSE IF "2-3rui" \in BaseSubstrings(bases_text) THEN "23B"
    ELSE IF "1rui"   \in BaseSubstrings(bases_text) THEN "1B"
    ELSE IF "2rui"   \in BaseSubstrings(bases_text) THEN "2B"
    ELSE IF "3rui"   \in BaseSubstrings(bases_text) THEN "3B"
    ELSE NULL

\* parse_count: the count texts are "" (empty cell), "1-2yori" ('1-2より'),
\* "3-1" and "fumei" (a text that is no B-S pair); the qualifier より is
\* stripped and the pair formatted back as 'B-S'.
parse_count(count_text) ==
    CASE count_text = ""        -> NULL
      [] count_text = "1-2yori" -> "1-2"
      [] count_text = "3-1"     -> "3-1"
      [] OTHER                  -> NULL

\* The out count of '(\d+)アウト', 0 when the cell holds no such token.
OutCount(out_text) ==
    CASE out_text = "0auto" -> 0
      [] out_text = "1auto" -> 1
      [] out_text = "2auto" -> 2
      [] OTHER              -> 0

\* One table row: n cells; cells[0] out_text, cells[1] bases_text, cells[2]
\* the batter cell (batter: the player id of its link, NULL without one),
\* cells[3] count_text, cells[4] result_text.
Cells(n, out_text, bases_text, batter, count_text, result_text) ==
    [n |-> n, out_text |-> out_text, bases_text |-> bases_text, batter |-> batter,
     count_text |-> count_text, result_text |-> result_text]

\* The event dictionary of parse_event_row.
\* The event dictionary that takes a home run for no hit.
EventDictHomeRunNoHit(game_id, batter_id, pitcher_id, inning, team, out, on_base, count, result) ==
    [game_id |-> game_id, batter_player_id |-> batter_id, pitcher_player_id |-> pitcher_id,
     inning |-> inning, team |-> team, out |-> out, on_base |-> on_base, count |-> count]
    @@ [f \in Flags |-> IF f = "h" /\ ResultGet(result, "hr") = 1 THEN 0
                        ELSE ResultGet(result, f)]

EventDict(game_id, batter_id, pitcher_id, inning, team, out, on_base, count, result) ==
    [game_id |-> game_id, batter_player_id |-> batter_id, pitcher_player_id |-> pitcher_id,
     inning |-> inning, team |-> team, out |-> out, on_base |-> on_base, count |-> count]
    @@ [f \in Flags |-> ResultGet(result, f)]

\* The return value None of parse_event_row: no event.
NoEvent == << >>

\* parse_event_row: NoEvent or the event of the row.
parse_event_row(cells, game_id, current_pitcher_id, current_inning, current_team_code) ==
    LET result_text == IF cells.n > 4 THEN cells.result_text ELSE << >>
    IN  IF cells.n < 4 THEN NoEvent
        ELSE IF ContainsAny({"tochuushuuryou", "tochuukoutai"}, result_text) THEN NoEvent
        ELSE IF cells.batter = NULL THEN NoEvent
        ELSE EventDict(game_id, cells.batter, current_pitcher_id, current_inning,
                       current_team_code, OutCount(cells.out_text),
                       parse_on_base(cells.bases_text), parse_count(cells.count_text),
                       parse_result(result_text))

\* parse_event_table that leaves the loop at the first row without an event.
RECURSIVE parse_event_table_break(_, _, _, _, _)
parse_event_table_break(rows, game_id, current_pitcher_id, current_inning, current_team_code) ==
    IF rows = << >> THEN << >>
    ELSE LET row == Head(rows)
             ev  == IF row.n >= 3
                    THEN parse_event_row(row, game_id, current_pitcher_id,
                                         current_inning, current_team_code)
                    ELSE NoEvent
         IN  IF ev # NoEvent
             THEN <<ev>> \o parse_event_table_break(Tail(rows), game_id, current_pitcher_id,
                                                    current_inning, current_team_code)
             ELSE << >>

\* parse_event_table: the events of the rows with at least 3 cells, in row order.
RECURSIVE parse_event_table(_, _, _, _, _)
parse_event_table(rows, game_id, current_pitcher_id, current_inning, current_team_code) ==
    IF rows = << >> THEN << >>
    ELSE LET row  == Head(rows)
             ev   == IF row.n >= 3
                     THEN parse_event_row(row, game_id, current_pitcher_id,
                                          current_inning, current_team_code)
                     ELSE NoEvent
             rest == parse_event_table(Tail(rows), game_id, current_pitcher_id,
                                       current_inning, current_team_code)
         IN  IF ev # NoEvent THEN <<ev>> \o rest ELSE rest

-----------------------------------------------------------------------------
(* The stores: the SQLite tables event, batting and pitching *)

Range(seq) == {seq[i] : i \in DOMAIN seq}

\* The event-derived columns of a batting row and of a pitching row.
BattingCounters ==
    {"pa", "ab", "b_h", "b_1b", "b_2b", "b_3b", "b_hr", "b_rbi",
     "b_gb", "b_fb", "b_k", "b_roe", "b_bb", "b_hbp", "b_gdp", "b_sac"}

PitchingCounters ==
    {"p_h", "p_1b", "p_2b", "p_3b", "p_hr",
     "p_gb", "p_fb", "p_k", "p_roe", "p_bb", "p_hbp", "p_gdp", "p_sac"}

\* upsert_events without its DELETE: the list is only inserted.
upsert_events_insert_only(event, events) ==
    event \o events

\* upsert_events: nothing for an empty list; else the events of the first
\* event's game are deleted and the list is inserted in its order.
upsert_events(event, events) ==
    IF events = << >> THEN event
    ELSE LET game_id == events[1].game_id
         IN  SelectSeq(event, LAMBDA e : e.game_id # game_id) \o events

\* insert_batting_data with a DELETE that names no game.
insert_batting_data_delete_all(batting, batting_data) ==
    IF batting_data = << >> THEN batting ELSE Range(batting_data)

\* BattingLineupParser.insert_batting_data: nothing for an empty list; else
\* the game's batting rows are deleted and the records inserted.
insert_batting_data(batting, batting_data) ==
    IF batting_data = << >> THEN batting
    ELSE LET game_id == batting_data[1].game_id
         IN  {r \in batting : r.game_id # game_id} \cup Range(batting_data)

\* PitchingParser.insert_pitching_data: the same for the pitching rows.  The
\* INSERT names no p_* column: they take the column default, modelled as 0.
insert_pitching_data(pitching, pitching_data) ==
    IF pitching_data = << >> THEN pitching
    ELSE LET game_id == pitching_data[1].game_id
         IN  {r \in pitching : r.game_id # game_id}
             \cup {rec @@ [c \in PitchingCounters |-> 0] : rec \in Range(pitching_data)}

-----------------------------------------------------------------------------
(* Batting/Pitching Rollup: event_aggregator.py, pitcher_event_aggregator.py *)

\* MAX(<column>) over rows in the place of SUM.
MaxFlag(rows, f) ==
    IF \E i \in DOMAIN rows : rows[i][f] > 0 THEN 1 ELSE 0

\* SUM(<column>) over rows
RECURSIVE SumFlag(_, _)
SumFlag(rows, f) ==
    IF rows = << >> THEN 0 ELSE Head(rows)[f] + SumFlag(Tail(rows), f)

\* WHERE game_id IN (game_ids); every game when game_ids is None or empty
\* (if game_ids: ... else: the query without WHERE).
InGameIds(game_id, game_ids) ==
    game_ids = << >> \/ game_id \in Range(game_ids)

\* The rows of one GROUP BY group.
GroupRows(event, game_id, column, player_id) ==
    SelectSeq(event, LAMBDA e : e.game_id = game_id /\ e[column] = player_id)

\* aggregate_events_by_game_and_batter: {(game_id, batter_id): stats}
aggregate_events_by_game_and_batter(event, game_ids) ==
    LET keys == {<<e.game_id, e.batter_player_id>> :
                    e \in {x \in Range(event) : InGameIds(x.game_id, game_ids)}}
    IN  [key \in keys |->
            LET rows  == GroupRows(event, key[1], "batter_player_id", key[2])
                pa    == Len(rows)
                b_1b  == SumFlag(rows, "1b")
                b_2b  == SumFlag(rows, "2b")
                b_3b  == SumFlag(rows, "3b")
                b_hr  == SumFlag(rows, "hr")
                b_bb  == SumFlag(rows, "bb")
                b_hbp == SumFlag(rows, "hbp")
                b_sac == SumFlag(rows, "sac")
            IN  [pa |-> pa,
                 ab |-> pa - (b_bb + b_hbp + b_sac),
                 b_h |-> b_1b + b_2b + b_3b + b_hr,
                 b_1b |-> b_1b, b_2b |-> b_2b, b_3b |-> b_3b, b_hr |-> b_hr,
                 b_rbi |-> SumFlag(rows, "rbi"),
                 b_gb |-> SumFlag(rows, "gb"), b_fb |-> SumFlag(rows, "fb"),
                 b_k |-> SumFlag(rows, "k"), b_roe |-> SumFlag(rows, "roe"),
                 b_bb |-> b_bb, b_hbp |-> b_hbp,
                 b_gdp |-> SumFlag(rows, "gdp"), b_sac |-> b_sac]]

\* aggregate_events_by_game_and_pitcher: {(game_id, pitcher_id): stats}
aggregate_events_by_game_and_pitcher(event, game_ids) ==
    LET keys == {<<e.game_id, e.pitcher_player_id>> :
                    e \in {x \in Range(event) : InGameIds(x.game_id, game_ids)}}
    IN  [key \in keys |->
            LET rows == GroupRows(event, key[1], "pitcher_player_id", key[2])
                p_1b == SumFlag(rows, "1b")
                p_2b == SumFlag(rows, "2b")
                p_3b == SumFlag(rows, "3b")
                p_hr == SumFlag(rows, "hr")
            IN  [pa_faced |-> Len(rows),
                 p_h |-> p_1b + p_2b + p_3b + p_hr,
                 p_1b |-> p_1b, p_2b |-> p_2b, p_3b |-> p_3b, p_hr |-> p_hr,
                 p_gb |-> SumFlag(rows, "gb"), p_fb |-> SumFlag(rows, "fb"),
                 p_k |-> SumFlag(rows, "k"), p_roe |-> SumFlag(rows, "roe"),
                 p_bb |-> SumFlag(rows, "bb"), p_hbp |-> SumFlag(rows, "hbp"),
                 p_gdp |-> SumFlag(rows, "gdp"), p_sac |-> SumFlag(rows, "sac")]]

\* get_batting_records / get_pitching_records: the keys (game_id, player_id)
\* of the existing rows of the games.
RecordKeys(table, game_ids) ==
    {<<r.game_id, r.player_id>> : r \in {x \in table : InGameIds(x.game_id, game_ids)}}

\* UPDATE <table> SET <counter> = <counter> + ?: the counters incremented.
UpdateRowIncrementing(r, counters, event_stats) ==
    [c \in DOMAIN r |-> IF c \in counters THEN r[c] + event_stats[c] ELSE r[c]]

\* UPDATE <table> SET <counters> = ? WHERE game_id = ? AND player_id = ?
UpdateRow(r, counters, event_stats) ==
    [c \in DOMAIN r |-> IF c \in counters THEN event_stats[c] ELSE r[c]]

\* update_batting_stats written as a replacement of the row: the counters
\* are set and the runs of the box score fall back to 0.
update_batting_stats_replacing(batting, aggregated_data, batting_records) ==
    {IF <<r.game_id, r.player_id>> \in (DOMAIN aggregated_data) \cap batting_records
     THEN [UpdateRow(r, BattingCounters, aggregated_data[<<r.game_id, r.player_id>>])
              EXCEPT !.b_r = 0]
     ELSE r : r \in batting}

\* update_batting_stats: one UPDATE per aggregated key that has a record;
\* a key without a record is only reported.
update_batting_stats(batting, aggregated_data, batting_records) ==
    {IF <<r.game_id, r.player_id>> \in (DOMAIN aggregated_data) \cap batting_records
     THEN UpdateRow(r, BattingCounters, aggregated_data[<<r.game_id, r.player_id>>])
     ELSE r : r \in batting}

\* update_pitching_stats: the same for the pitching rows.
update_pitching_stats(pitching, aggregated_data, pitching_records) ==
    {IF <<r.game_id, r.player_id>> \in (DOMAIN aggregated_data) \cap pitching_records
     THEN UpdateRow(r, PitchingCounters, aggregated_data[<<r.game_id, r.player_id>>])
     ELSE r : r \in pitching}

\* EventAggregator.aggregate_and_update
BattingAggregateAndUpdate(event, batting, game_ids) ==
    update_batting_stats(batting,
                         aggregate_events_by_game_and_batter(event, game_ids),
                         RecordKeys(batting, game_ids))

\* PitcherEventAggregator.aggregate_and_update
PitchingAggregateAndUpdate(event, pitching, game_ids) ==
    update_pitching_stats(pitching,
                          aggregate_events_by_game_and_pitcher(event, game_ids),
                          RecordKeys(pitching, game_ids))

-----------------------------------------------------------------------------
(* The documents of a game and the driver: unified_parser.py *)

Games == {"g1", "g2"}
Batters == {"b1", "b2"}
PitcherIds == {"p1", "p2"}

\* <homeCode>-<awayCode> of the game id
HomeCode(game_id) == IF game_id = "g1" THEN "db" ELSE "c"
AwayCode(game_id) == IF game_id = "g1" THEN "t" ELSE "g"

\* The batting record parse_batting_lineup builds for a player of the box
\* score: the lineup fields and runs of the document, every counter 0.
BattingRecord(game_id, player_id) ==
    [game_id |-> game_id, player_id |-> player_id,
     team |-> IF player_id = "b1" THEN AwayCode(game_id) ELSE HomeCode(game_id),
     lineup_position |-> IF player_id = "b1" THEN 1 ELSE 2,
     position |-> IF player_id = "b1" THEN "SS" ELSE "C",
     b_r |-> IF player_id = "b1" THEN 1 ELSE 0]
    @@ [c \in BattingCounters |-> 0]

\* The pitching record parse_pitching_stats builds for a pitcher.
PitchingRecord(game_id, player_id) ==
    [game_id |-> game_id, player_id |-> player_id, team |-> HomeCode(game_id),
     win |-> 1, loss |-> 0, save |-> 0, hold |-> 0, start |-> 1, finish |-> 1,
     ip |-> 9, pitches_thrown |-> 120, er |-> 1, r |-> 2, batters_faced |-> 30,
     wild_pitch |-> 0, balk |-> 0]

\* A plain row of an event table: no outs, bases empty, no count.
PlainCells(batter, result_text) == Cells(5, "", "", batter, "", result_text)

\* The events parse_playbyplay_from_url can return for a game: rows of the
\* first top half, a single by b1 against the announced pitcher and a walk
\* of b2 with no pitcher announced.
EventPool(game_id) ==
    {parse_event_row(PlainCells(x[1], x[3]), game_id, x[2], "1T", AwayCode(game_id)) :
        x \in {<<"b1", "p1", <<"anda">>>>,
               <<"b2", NULL, <<"yonkyuu">>>>}}

RECURSIVE SeqsUpTo(_, _)
SeqsUpTo(S, n) ==
    IF n = 0 THEN {<< >>}
    ELSE LET shorter == SeqsUpTo(S, n - 1)
         IN  shorter \cup {Append(q, x) : q \in {y \in shorter : Len(y) = n - 1}, x \in S}

EventLists(game_id) == SeqsUpTo(EventPool(game_id), MaxEvents)

\* What the pages of one base URL yield: is_valid of validate_url, whether
\* box.html and playbyplay.html are accessible, the lists the three parsers
\* return and the result of the metadata scraper.
Doc(is_valid, game_id, box_exists, batting_data, pitching_data, metadata_result, playbyplay_exists, events) ==
    [is_valid |-> is_valid, game_id |-> game_id, box_exists |-> box_exists,
     batting_data |-> batting_data, pitching_data |-> pitching_data,
     metadata_result |-> metadata_result,
     playbyplay_exists |-> playbyplay_exists, events |-> events]

\* The box score of a game: the lineup and the pitchers of box.html.
Boxes(game_id) ==
    {<< <<BattingRecord(game_id, "b1"), BattingRecord(game_id, "b2")>>,
        <<PitchingRecord(game_id, "p1")>> >>}

\* The URL no game id can be extracted from.
InvalidDoc(game_id) == Doc(FALSE, game_id, FALSE, << >>, << >>, FALSE, FALSE, << >>)

\* A play-by-play page whose URL yields no game id although its tables hold
\* a row: the row as parse_event_row would extract it without game id and
\* team codes.
UnidentifiableDoc(game_id) ==
    Doc(FALSE, game_id, FALSE, << >>, << >>, FALSE, TRUE,
        <<parse_event_row(PlainCells("b1", <<"anda">>), NULL, NULL, "1T", NULL)>>)

\* parse_playbyplay_from_url without its check of the game id.
parse_playbyplay_from_url_unchecked(doc) == doc.events

\* parse_playbyplay_from_url: no event is returned when no game id can be
\* extracted from the URL, else the events of the page's tables.
parse_playbyplay_from_url(doc) == IF ~doc.is_valid THEN << >> ELSE doc.events

\* The documents of a game: with or without an accessible box score, with
\* every event list; a play-by-play page without events counts as not
\* accessible.
Docs(game_id) ==
    {Doc(TRUE, game_id, TRUE, box[1], box[2], TRUE, ev # << >>, ev) :
         box \in Boxes(game_id), ev \in EventLists(game_id)}
    \cup {Doc(TRUE, game_id, FALSE, << >>, << >>, FALSE, ev # << >>, ev) :
             ev \in EventLists(game_id)}
    \cup {InvalidDoc(game_id), UnidentifiableDoc(game_id)}

\* The document of the second game, which an earlier run has parsed.
EarlierDoc ==
    Doc(TRUE, "g2", TRUE, <<BattingRecord("g2", "b1")>>, <<PitchingRecord("g2", "p1")>>,
        TRUE, TRUE,
        <<parse_event_row(PlainCells("b1", <<"anda">>), "g2", "p1", "1T", AwayCode("g2"))>>)

VARIABLES
    site,           \* the documents the pages of each game hold now
    db_event,       \* table event: its rows in insertion order
    db_batting,     \* table batting: its rows
    db_pitching,    \* table pitching: its rows
    main_pc,        \* main(): "idle", or "loop" between two URLs of a run
    results,        \* main(): <<game of the url, success>> of the URLs so far
    successfully_parsed_game_ids,
    hist,           \* the last completed operation (history)
    row_cells,      \* parse_event_row: the row handed to it (cells)
    row_event,      \* parse_event_row: its return value (event)
    row_pc,         \* "idle", "call" before parse_event_row, "done" after it
    table_rows,     \* parse_event_table: the rows of the table handed to it
    table_events,   \* parse_event_table: its return value (events)
    table_pc,       \* "idle", "call" before parse_event_table, "done" after it
    all_elements,   \* parse_playbyplay_from_url: headers and tables in document order
    elem_i,         \* the loop variable i, from 1; 0 when no document is parsed
    current_inning,
    current_team,
    top_inning_pitcher,
    bottom_inning_pitcher,
    all_events,
    conn,           \* the writer's sqlite3 connection: the tables as it sees them
    txn,            \* the handler writing: its statements still to execute
    reader_seen,    \* what the last SELECT of a reader returned (history)
    urls,           \* main(): the URLs of a batch, each with the fault its parsing meets
    par_pc,         \* two runs of main(), one per game: the next store operation of each
    par_agg,        \* aggregate_and_update of each run: aggregated_data as read
    par_rec,        \* aggregate_and_update of each run: the existing records as read
    par_start,      \* the stores when the two runs started (history)
    agg_pc,         \* "idle", "call" before aggregate_events_by_game_and_batter, "done" after it
    agg_game_ids,   \* its argument game_ids
    agg_data        \* its return value (aggregated_data)

\* The variables only the runs over a batch of URLs use.
batchvars == <<urls>>

\* The variables of a call of the batting aggregation on its own.
aggvars == <<agg_pc, agg_game_ids, agg_data>>

\* The variables only two concurrent runs use.
parvars == <<par_pc, par_agg, par_rec, par_start>>

storevars == <<site, db_event, db_batting, db_pitching, main_pc, results,
               successfully_parsed_game_ids, hist, batchvars, parvars, aggvars>>
rowvars == <<row_cells, row_event, row_pc>>
tablevars == <<table_rows, table_events, table_pc>>
chronvars == <<all_elements, elem_i, current_inning, current_team,
               top_inning_pitcher, bottom_inning_pitcher, all_events>>

txnvars == <<conn, txn, reader_seen>>

\* The variables the operations on the stores leave alone.
parservars == <<rowvars, tablevars, chronvars, txnvars, batchvars, parvars, aggvars>>

vars == <<storevars, parservars>>

Stores == [event |-> db_event, batting |-> db_batting, pitching |-> db_pitching]

\* parse_game_data: the stores after it and its return value.
parse_game_data(doc, st) ==
    IF ~doc.is_valid THEN [success |-> FALSE, st |-> st]
    ELSE IF ~doc.box_exists /\ ~doc.playbyplay_exists THEN [success |-> FALSE, st |-> st]
    ELSE LET batting  == IF doc.box_exists
                         THEN insert_batting_data(st.batting, doc.batting_data)
                         ELSE st.batting
             pitching == IF doc.box_exists
                         THEN insert_pitching_data(st.pitching, doc.pitching_data)
                         ELSE st.pitching
             event    == IF doc.playbyplay_exists /\ parse_playbyplay_from_url(doc) # << >>
                         THEN upsert_events(st.event, parse_playbyplay_from_url(doc))
                         ELSE st.event
             success_count ==
                   (IF doc.box_exists /\ doc.batting_data # << >> THEN 1 ELSE 0)
                 + (IF doc.box_exists /\ doc.pitching_data # << >> THEN 1 ELSE 0)
                 + (IF doc.box_exists /\ doc.metadata_result THEN 1 ELSE 0)
                 + (IF doc.playbyplay_exists /\ parse_playbyplay_from_url(doc) # << >>
                    THEN 1 ELSE 0)
         IN  [success |-> success_count > 0,
              st |-> [event |-> event, batting |-> batting, pitching |-> pitching]]

\* main(), the aggregation after all URLs: the batting and then the pitching
\* aggregator on the parsed games.
RunAggregation(st, game_ids) ==
    [event    |-> st.event,
     batting  |-> BattingAggregateAndUpdate(st.event, st.batting, game_ids),
     pitching |-> PitchingAggregateAndUpdate(st.event, st.pitching, game_ids)]

\* The games an aggregation with this list rolls up.
RolledUp(game_ids) == {g \in Games : InGameIds(g, game_ids)}

\* History: the operation just completed, its argument, the games it rolled
\* up, how many times in a row it has run with this argument (1 or 2) and the
\* stores as its first run left them.  It is forgotten as soon as the pages
\* change or a run of main() starts that does not repeat the last one.
Completed(op, arg, rolled, st) ==
    IF hist.op = op /\ hist.arg = arg
    THEN [hist EXCEPT !.rep = 2, !.rolled = rolled]
    ELSE [op |-> op, arg |-> arg, rolled |-> rolled, rep |-> 1, snap |-> st]

-----------------------------------------------------------------------------
(* The operations on the stores, each handler one step *)

EmptyStores == [event |-> << >>, batting |-> {}, pitching |-> {}]

NoHist == [op |-> "none", arg |-> << >>, rolled |-> {}, rep |-> 0, snap |-> EmptyStores]

\* The stores hold the second game as parse_game_data left it in an earlier
\* run; no page of the first game has been parsed.
StoreInit ==
    /\ site = [g \in Games |-> IF g = "g1" THEN InvalidDoc(g) ELSE EarlierDoc]
    /\ db_event = parse_game_data(EarlierDoc, EmptyStores).st.event
    /\ db_batting = parse_game_data(EarlierDoc, EmptyStores).st.batting
    /\ db_pitching = parse_game_data(EarlierDoc, EmptyStores).st.pitching
    /\ main_pc = "idle"
    /\ results = << >>
    /\ successfully_parsed_game_ids = << >>
    /\ hist = NoHist

\* No row and no table is being parsed.
RowIdle == row_cells = << >> /\ row_event = NoEvent /\ row_pc = "idle"
TableIdle == table_rows = << >> /\ table_events = << >> /\ table_pc = "idle"

\* The locals of parse_playbyplay_from_url before its loop.
ChronLocals ==
    /\ current_inning = NULL
    /\ current_team = NULL
    /\ top_inning_pitcher = NULL
    /\ bottom_inning_pitcher = NULL
    /\ all_events = << >>

ChronIdle == all_elements = << >> /\ elem_i = 0 /\ ChronLocals

\* No connection is open and no handler is writing.
ClosedConn == [open |-> FALSE, batting |-> {}, pitching |-> {}]

NoTxn == [name |-> "none", tbl |-> "none", stmts |-> << >>, before |-> {}, after |-> {}, executed |-> 0, outcome |-> "none", report |-> "none"]

NoRead ==
    [tbl |-> "none", game_id |-> NULL, writing |-> FALSE,
     rows |-> {}, before |-> {}, after |-> {}, pending |-> {}]

TxnIdle == conn = ClosedConn /\ txn = NoTxn /\ reader_seen = NoRead

\* No batch of URLs is given.
BatchIdle == urls = << >>

\* The aggregation is not called on its own.
AggIdle == agg_pc = "idle" /\ agg_game_ids = << >> /\ agg_data = << >>

\* No two runs are under way.
ParIdle ==
    /\ par_pc = [g \in Games |-> 0]
    /\ par_agg = [g \in Games |-> << >>]
    /\ par_rec = [g \in Games |-> {}]
    /\ par_start = EmptyStores

Init == StoreInit /\ RowIdle /\ TableIdle /\ ChronIdle /\ TxnIdle /\ BatchIdle /\ ParIdle /\ AggIdle

SetStores(st) ==
    /\ db_event' = st.event
    /\ db_batting' = st.batting
    /\ db_pitching' = st.pitching

\* The pages of a game change (a corrected report, a page that appears or
\* goes away) between two runs: the environment of every operation below.
SiteChange(g, doc) ==
    /\ main_pc = "idle"
    /\ doc # site[g]
    /\ site' = [site EXCEPT ![g] = doc]
    /\ hist' = NoHist
    /\ UNCHANGED <<db_event, db_batting, db_pitching, main_pc, results,
                   successfully_parsed_game_ids>>
    /\ UNCHANGED parservars

\* main(): one iteration of the loop over the URLs.
MainParse(g) ==
    /\ Len(results) < MaxUrls
    /\ LET r == parse_game_data(site[g], Stores)
       IN  /\ SetStores(r.st)
           /\ results' = Append(results, <<g, r.success>>)
           /\ successfully_parsed_game_ids' =
                  IF r.success THEN Append(successfully_parsed_game_ids, g)
                  ELSE successfully_parsed_game_ids
    /\ main_pc' = "loop"
    /\ hist' = IF /\ hist.op = "main"
                  /\ Len(results) < Len(hist.arg)
                  /\ hist.arg[Len(results) + 1] = g
               THEN hist ELSE NoHist
    /\ UNCHANGED site
    /\ UNCHANGED parservars

\* main(): the summary and the aggregation after the last URL, skipped when
\* no game was parsed.
MainAggregate ==
    /\ main_pc = "loop"
    /\ LET ids == successfully_parsed_game_ids
           st  == IF ids # << >> THEN RunAggregation(Stores, ids) ELSE Stores
       IN  /\ SetStores(st)
           /\ hist' = Completed("main", [i \in DOMAIN results |-> results[i][1]],
                                IF ids # << >> THEN RolledUp(ids) ELSE {}, st)
    /\ main_pc' = "idle"
    /\ results' = << >>
    /\ successfully_parsed_game_ids' = << >>
    /\ UNCHANGED site
    /\ UNCHANGED parservars

\* unified_aggregator.py aggregate_batch(game_ids): both aggregators.
AggregateBatch(game_ids) ==
    /\ main_pc = "idle"
    /\ LET st == RunAggregation(Stores, game_ids)
       IN  /\ SetStores(st)
           /\ hist' = Completed("aggregate_batch", game_ids, RolledUp(game_ids), st)
    /\ UNCHANGED <<site, main_pc, results, successfully_parsed_game_ids>>
    /\ UNCHANGED parservars

\* eventfiles.py as a program: the events of the play-by-play page of a game
\* are parsed and handed to upsert_events.
EventfilesMain(g) ==
    /\ main_pc = "idle"
    /\ LET events == parse_playbyplay_from_url(site[g])
           st == [Stores EXCEPT !.event = upsert_events(db_event, events)]
       IN  /\ SetStores(st)
           /\ hist' = Completed("eventfiles", <<g>>, {}, st)
    /\ UNCHANGED <<site, main_pc, results, successfully_parsed_game_ids>>
    /\ UNCHANGED parservars

GameIdLists == {<< >>, <<"g1">>, <<"g2">>, <<"g1", "g2">>}

Next ==
    \/ \E doc \in Docs("g1") : SiteChange("g1", doc)
    \/ MainParse("g1")
    \/ MainAggregate
    \/ \E game_ids \in GameIdLists : AggregateBatch(game_ids)
    \/ EventfilesMain("g1")

Spec == Init /\ [][Next]_vars

-----------------------------------------------------------------------------
(* The Event Extractor on one row and on one table *)

\* The words of the outcome texts (see RbiWords for their originals).
Words ==
    {"sanshin", "K", "furinige", "yonkyuu", "foabooru", "BB", "shikyuu",
     "deddobooru", "HBP", "gida", "SH", "gisei", "gihi", "SF", "giseifurai",
     "naiyaanda", "anda", "hitto", "niruida", "tsuubeesu", "sanruida",
     "suriibeesu", "honruida", "hoomuran", "heisatsu", "heisatsuda", "DP",
     "goro", "furai", "eraa", "yasen", "daten", "sahi", "tochuushuuryou",
     "tochuukoutai"} \cup RbiWords

\* The outcome texts: up to MaxWords words.
Texts == SeqsUpTo(Words, MaxWords)

\* The rows handed to parse_event_row: five cells, with or without a batter
\* link, every outcome text.
Rows ==
    {Cells(5, "", "", batter, "", text) : batter \in {"b1", NULL}, text \in Texts}

\* A call of parse_event_row on some row.
InitRow ==
    /\ StoreInit /\ TableIdle /\ ChronIdle /\ TxnIdle /\ BatchIdle /\ ParIdle /\ AggIdle
    /\ row_cells \in Rows
    /\ row_event = NoEvent
    /\ row_pc = "call"

ParseEventRow ==
    /\ row_pc = "call"
    /\ row_event' = parse_event_row(row_cells, "g1", "p1", "1T", AwayCode("g1"))
    /\ row_pc' = "done"
    /\ UNCHANGED <<row_cells, storevars, tablevars, chronvars, txnvars>>

NextRow == ParseEventRow

SpecRow == InitRow /\ [][NextRow]_vars

\* The rows of the tables: a single, a home run with an error, an empty
\* outcome text, a row without batter link, a row with the stopped-early
\* marker, a row of four cells, of three cells and of two cells.
TableRowPool ==
    {Cells(5, "1auto", "1rui", "b1", "1-2yori", <<"anda">>),
     Cells(5, "2auto", "manrui", "b2", "3-1", <<"honruida", "eraa">>),
     Cells(5, "", "", "b1", "", << >>),
     Cells(5, "", "", NULL, "", <<"anda">>),
     Cells(5, "1auto", "", "b2", "", <<"tochuushuuryou">>),
     Cells(4, "", "2rui", "b2", "fumei", << >>),
     Cells(3, "", "", "b1", "", << >>),
     Cells(2, "", "", NULL, "", << >>)}

\* A call of parse_event_table on some table of up to MaxRows rows.
InitTable ==
    /\ StoreInit /\ RowIdle /\ ChronIdle /\ TxnIdle /\ BatchIdle /\ ParIdle /\ AggIdle
    /\ table_rows \in SeqsUpTo(TableRowPool, MaxRows)
    /\ table_events = << >>
    /\ table_pc = "call"

ParseEventTable ==
    /\ table_pc = "call"
    /\ table_events' = parse_event_table(table_rows, "g1", "p1", "1T", AwayCode("g1"))
    /\ table_pc' = "done"
    /\ UNCHANGED <<table_rows, storevars, rowvars, chronvars, txnvars>>

NextTable == ParseEventTable

SpecTable == InitTable /\ [][NextTable]_vars

\* The outcome text of a row: cells[4] when the row has it.
ResultText(row) == IF row.n > 4 THEN row.result_text ELSE << >>

\* The outcome text is empty or no rule of parse_result matches it.
Unparseable(text) ==
    IF text = << >> THEN TRUE ELSE parse_result(text) = ZeroResult

\* C6: a row whose outcome text is empty or matches no rule of the
\* interpreter produces no event.
C6_UnparseableRowDiscarded ==
    (row_pc = "done" /\ Unparseable(ResultText(row_cells))) => row_event = NoEvent

\* The texts of the cells of a row: out counts, base states (none, the
\* seven states and a text that names none) and counts.
OutTexts == {"", "0auto", "1auto", "2auto"}
BaseTexts == {"", "manrui", "1-2rui", "1-3rui", "2-3rui", "1rui", "2rui", "3rui", "fumei"}
CountTexts == {"", "1-2yori", "3-1", "fumei"}

\* A call of parse_event_row on a row of a single with some out count,
\* base state and count.
InitBases ==
    /\ StoreInit /\ TableIdle /\ ChronIdle /\ TxnIdle /\ BatchIdle /\ ParIdle /\ AggIdle
    /\ row_cells \in {Cells(5, out_text, bases_text, "b1", count_text, <<"anda">>) :
                          out_text \in OutTexts, bases_text \in BaseTexts,
                          count_text \in CountTexts}
    /\ row_event = NoEvent
    /\ row_pc = "call"

SpecBases == InitBases /\ [][NextRow]_vars

\* The multi-runner state a base text names, NULL when it names none.
MultiRunnerState(bases_text) ==
    CASE bases_text = "manrui" -> "123B"
      [] bases_text = "1-2rui" -> "12B"
      [] bases_text = "1-3rui" -> "13B"
      [] bases_text = "2-3rui" -> "23B"
      [] OTHER                 -> NULL

\* C19: a base text that names a multi-runner state (first-second,
\* first-third, second-third, loaded) is classified as that state, never
\* as the single-runner state whose token is a substring of it; a text
\* that names a single runner is classified as that runner.
C19_MultiRunnerBeforeSingle ==
    (row_pc = "done" /\ row_event # NoEvent) =>
        LET t == row_cells.bases_text
        IN  /\ MultiRunnerState(t) # NULL =>
                   /\ row_event.on_base = MultiRunnerState(t)
                   /\ row_event.on_base \notin {"1B", "2B", "3B"}
            /\ t = "1rui" => row_event.on_base = "1B"
            /\ t = "2rui" => row_event.on_base = "2B"
            /\ t = "3rui" => row_event.on_base = "3B"

\* A row with runners on first and second has been parsed: the token of
\* "second" occurs in its text, the event has the two-runner state.
C19_Witness ==
    /\ row_pc = "done" /\ row_event # NoEvent
    /\ row_cells.bases_text = "1-2rui"
    /\ "2rui" \in BaseSubstrings(row_cells.bases_text)
    /\ row_event.on_base = "12B"

\* The RBI tokens of a text that are followed by digits, in text order.
RbiTokens(text) == SelectSeq(text, LAMBDA w : w \in RbiWords)

\* C17: the RBI of an event is the number after the first RBI token of its
\* outcome text that is followed by digits, whatever the primary category;
\* without such a token it is the default of the primary category, 1 for a
\* home run.  "niruida, daten2" (double, 2 RBI) gives hit 1, double 1,
\* RBI 2 and single, triple and home run 0.
C17_RbiDigitsOverride ==
    (row_pc = "done" /\ row_event # NoEvent /\ ResultText(row_cells) # << >>) =>
        LET text == ResultText(row_cells)
        IN  /\ RbiTokens(text) # << >> => row_event.rbi = RbiDigits(Head(RbiTokens(text)))
            /\ RbiTokens(text) = << >> =>
                   /\ row_event.rbi = PrimaryResult(text).rbi
                   /\ row_event.hr = 1 => row_event.rbi = 1
            /\ text = <<"niruida", "daten2">> =>
                   /\ row_event.h = 1 /\ row_event["2b"] = 1 /\ row_event.rbi = 2
                   /\ row_event["1b"] = 0 /\ row_event["3b"] = 0 /\ row_event.hr = 0

\* The row of a home run with "3 RBI" has been parsed: the event has 3 RBI,
\* not the home run's default.
C17_Witness ==
    /\ row_pc = "done"
    /\ ResultText(row_cells) = <<"honruida", "daten3">>
    /\ row_event # NoEvent
    /\ row_event.hr = 1 /\ row_event.rbi = 3

\* The row has a batter id and no stopped-early marker.
Extractable(row) ==
    /\ row.n >= 4
    /\ row.batter # NULL
    /\ ~ContainsAny({"tochuushuuryou", "tochuukoutai"}, ResultText(row))

\* C7: the events of a table are those of its rows that have a batter id and
\* no stopped-early marker, one each and in row order: a row without batter
\* id or with the marker gives no event and the rows around it still do.
C7_BadRowSkipped ==
    table_pc = "done" =>
        LET kept == SelectSeq(table_rows, Extractable)
        IN  /\ Len(table_events) = Len(kept)
            /\ \A i \in 1..Len(kept) :
                   /\ table_events[i].batter_player_id = kept[i].batter
                   /\ table_events[i].out = OutCount(kept[i].out_text)

\* A table whose middle row has no batter id, between two rows with events.
C7_Witness ==
    /\ table_pc = "done"
    /\ Len(table_rows) = 3
    /\ Extractable(table_rows[1]) /\ Extractable(table_rows[3])
    /\ table_rows[2].n = 5 /\ table_rows[2].batter = NULL
    /\ Len(table_events) = 2
    /\ table_events[1].batter_player_id = "b1" /\ table_events[2].batter_player_id = "b2"

\* C8: an event has at most one of the flags 1b, 2b, 3b, hr set, and roe is
\* set whenever the text names an error or a fielder's choice, whatever the
\* primary category.
C8_OneHitType ==
    (row_pc = "done" /\ row_event # NoEvent) =>
        /\ row_event["1b"] + row_event["2b"] + row_event["3b"] + row_event["hr"] <= 1
        /\ ContainsAny({"eraa", "yasen"}, ResultText(row_cells)) => row_event["roe"] = 1

\* A text that names two hit types and an error: one hit flag, with roe.
C8_Witness ==
    /\ row_pc = "done" /\ row_event # NoEvent
    /\ Contains("anda", ResultText(row_cells))
    /\ Contains("eraa", ResultText(row_cells))
    /\ row_event["1b"] = 1 /\ row_event["roe"] = 1

\* The primary outcome category a flag belongs to: the four hit types are
\* one category.
CategoryOf(f) == IF f \in {"1b", "2b", "3b", "hr"} THEN "hit" ELSE f

\* The primary outcome categories set on an event.
CategoriesSet(e) ==
    {CategoryOf(f) : f \in {g \in {"1b", "2b", "3b", "hr", "k", "bb", "hbp", "sac",
                                   "gb", "fb", "gdp"} : e[g] = 1}}

\* The category of each rule of the chain, in rule order: strikeout, walk,
\* hit by pitch, sacrifice bunt, sacrifice fly, infield single, single,
\* double, triple, home run, double play, ground-out, fly-out.
RuleCategory ==
    <<"k", "bb", "hbp", "sac", "sac", "hit", "hit", "hit", "hit", "hit", "gdp", "gb", "fb">>

\* C25: an event has at most one primary outcome category set, and it is
\* the category of the first rule in rule order whose pattern occurs in the
\* outcome text, also when patterns of later rules occur in it; none when
\* no rule matches.
C25_FirstRuleCategory ==
    (row_pc = "done" /\ row_event # NoEvent) =>
        LET text == ResultText(row_cells)
            matching == MatchingRules(text)
        IN  /\ Cardinality(CategoriesSet(row_event)) <= 1
            /\ matching = {} => CategoriesSet(row_event) = {}
            /\ \A i \in matching :
                   (\A j \in matching : i <= j)
                       => CategoriesSet(row_event) = {RuleCategory[i]}

\* A text with a fly-out word before a walk word: the walk rule comes
\* first in rule order, so bb is the only category.
C25_Witness ==
    /\ row_pc = "done" /\ row_event # NoEvent
    /\ ResultText(row_cells) = <<"furai", "yonkyuu">>
    /\ row_event["bb"] = 1 /\ row_event["fb"] = 0
    /\ CategoriesSet(row_event) = {"bb"}

-----------------------------------------------------------------------------
(* The chronology loop of parse_playbyplay_from_url *)

\* map_inning_notation yields '<n>T' for 回表 and '<n>B' for 回裏.
Innings == {"1T", "1B", "2T"}

\* 'T' in inning, 'B' in inning
IsTop(inning) == inning \in {"1T", "2T"}
IsBottom(inning) == inning \in {"1B"}

\* map_inning_notation: the team of the inning.
InningTeam(inning) == IF IsTop(inning) THEN "away" ELSE "home"

\* An element of the document: a header with the inning map_inning_notation
\* finds in it (NULL: none), or a table with its classify_table type, the
\* pitcher id parse_pitching_announcement finds in it (NULL: none) and its rows.
Element(name, inning, table_type, new_pitcher_id, rows) ==
    [name |-> name, inning |-> inning, table_type |-> table_type,
     new_pitcher_id |-> new_pitcher_id, rows |-> rows]

Header(inning) == Element("h3", inning, NULL, NULL, << >>)

Table(table_type, new_pitcher_id, rows) ==
    Element("table", NULL, table_type, new_pitcher_id, rows)

\* The elements of the documents: the inning headers and a header that names
\* no inning; pitching tables announcing p1 (with the first event of the
\* inning), p2 (without event) and no pitcher; event tables with a walk,
\* with a strikeout at no outs, and with a row without batter and a row
\* without outcome text; a table that only names an inning and an unknown
\* table.
ElementPool ==
    {Header(inning) : inning \in Innings \cup {NULL}}
    \cup {Table("PITCHING", "p1", <<PlainCells("b1", <<"anda">>)>>),
          Table("PITCHING", "p2", << >>),
          Table("PITCHING", NULL, <<PlainCells("b2", <<"sanshin">>)>>),
          Table("EVENT", NULL, <<PlainCells("b2", <<"yonkyuu">>)>>),
          Table("EVENT", NULL, <<Cells(5, "0auto", "", "b1", "", <<"sanshin">>)>>),
          Table("EVENT", NULL, <<Cells(5, "", "", NULL, "", <<"anda">>),
                                 PlainCells("b1", << >>)>>),
          Table("INNING", NULL, << >>),
          Table("UNKNOWN", NULL, << >>)}

\* The pitching branch when it assigns the top side without inning context.
AssignPitcherGuessTop(inning, new_pitcher_id, top, bottom) ==
    IF new_pitcher_id = NULL THEN [top |-> top, bottom |-> bottom]
    ELSE IF IsBottom(inning) THEN [top |-> top, bottom |-> new_pitcher_id]
    ELSE [top |-> new_pitcher_id, bottom |-> bottom]

\* The pitching branch: the announced pitcher is assigned to the side of the
\* current inning; without inning context it is only reported.
AssignPitcher(inning, new_pitcher_id, top, bottom) ==
    IF new_pitcher_id = NULL THEN [top |-> top, bottom |-> bottom]
    ELSE IF IsTop(inning) THEN [top |-> new_pitcher_id, bottom |-> bottom]
    ELSE IF IsBottom(inning) THEN [top |-> top, bottom |-> new_pitcher_id]
    ELSE [top |-> top, bottom |-> bottom]

\* current_pitcher_id taken from the other side's variable.
CurrentPitcherIdOtherSide(inning, top, bottom) ==
    IF IsTop(inning) THEN bottom
    ELSE IF IsBottom(inning) THEN top
    ELSE NULL

\* current_pitcher_id of the event parts: the pitcher of the inning's side.
CurrentPitcherId(inning, top, bottom) ==
    IF IsTop(inning) THEN top
    ELSE IF IsBottom(inning) THEN bottom
    ELSE NULL

\* get_batting_team_code with the sides exchanged.
get_batting_team_code_swapped(inning, away_code, home_code) ==
    IF IsTop(inning) THEN home_code
    ELSE IF IsBottom(inning) THEN away_code
    ELSE NULL

\* get_batting_team_code: the away code in a top half, the home code in a
\* bottom half, None without inning.
get_batting_team_code(inning, away_code, home_code) ==
    IF IsTop(inning) THEN away_code
    ELSE IF IsBottom(inning) THEN home_code
    ELSE NULL

\* all_events.extend(events) that puts the new events in front.
extend_in_front(list, items) == items \o list

\* all_events.extend(events)
extend(list, items) == list \o items

\* parse_playbyplay_from_url on some document of up to MaxBlocks elements.
InitChron ==
    /\ StoreInit /\ RowIdle /\ TableIdle /\ TxnIdle /\ BatchIdle /\ ParIdle /\ AggIdle
    /\ all_elements \in SeqsUpTo(ElementPool, MaxBlocks)
    /\ elem_i = 1
    /\ ChronLocals

\* One iteration of the loop over all_elements.
ProcessElement ==
    /\ elem_i \in DOMAIN all_elements
    /\ LET element == all_elements[elem_i]
           is_header == element.name # "table"
           pitchers ==
               IF ~is_header /\ element.table_type = "PITCHING"
               THEN AssignPitcher(current_inning, element.new_pitcher_id,
                                  top_inning_pitcher, bottom_inning_pitcher)
               ELSE [top |-> top_inning_pitcher, bottom |-> bottom_inning_pitcher]
           parsed ==
               IF ~is_header /\ element.table_type \in {"PITCHING", "EVENT"}
               THEN parse_event_table(
                        element.rows, "g1",
                        CurrentPitcherId(current_inning, pitchers.top, pitchers.bottom),
                        current_inning,
                        get_batting_team_code(current_inning, AwayCode("g1"), HomeCode("g1")))
               ELSE << >>
       IN  /\ current_inning' = IF is_header /\ element.inning # NULL
                                THEN element.inning ELSE current_inning
           /\ current_team' = IF is_header /\ element.inning # NULL
                              THEN InningTeam(element.inning) ELSE current_team
           /\ top_inning_pitcher' = pitchers.top
           /\ bottom_inning_pitcher' = pitchers.bottom
           /\ all_events' = extend(all_events, parsed)
    /\ elem_i' = elem_i + 1
    /\ UNCHANGED <<all_elements, storevars, rowvars, tablevars, txnvars>>

NextChron == ProcessElement

SpecChron == InitChron /\ [][NextChron]_vars

\* The pitcher was announced by a pitching table processed after an inning
\* header.
AnnouncedInInning(pitcher_id) ==
    \E j \in 1..(elem_i - 1) :
        /\ all_elements[j].table_type = "PITCHING"
        /\ all_elements[j].new_pitcher_id = pitcher_id
        /\ \E k \in 1..(j - 1) : all_elements[k].inning # NULL

\* C9: as long as no inning marker has been seen, whatever pitching tables
\* were processed, neither top_inning_pitcher nor bottom_inning_pitcher is
\* assigned; and an event carries a pitcher only if a pitching table
\* announced that pitcher after an inning marker.
C9_NoInningNoPitcher ==
    /\ current_inning = NULL =>
           top_inning_pitcher = NULL /\ bottom_inning_pitcher = NULL
    /\ \A k \in DOMAIN all_events :
           all_events[k].pitcher_player_id # NULL
               => AnnouncedInInning(all_events[k].pitcher_player_id)

\* A pitching table announcing p1 before any inning header, then the header
\* of the first top half and an event table: the loop has processed all
\* three, both pitchers are unset and the events carry no pitcher.
C9_Witness ==
    /\ Len(all_elements) = 3 /\ elem_i = 4
    /\ all_elements[1] = Table("PITCHING", "p1", <<PlainCells("b1", <<"anda">>)>>)
    /\ all_elements[2] = Header("1T")
    /\ all_elements[3].table_type = "EVENT"
    /\ top_inning_pitcher = NULL /\ bottom_inning_pitcher = NULL
    /\ Len(all_events) = 2
    /\ all_events[1].pitcher_player_id = NULL /\ all_events[1].inning = NULL
    /\ all_events[2].pitcher_player_id = NULL /\ all_events[2].inning = "1T"

\* The inning in force when the loop reaches element j: that of the last
\* header before it that names an inning.
RECURSIVE InningBefore(_)
InningBefore(j) ==
    IF j <= 1 THEN NULL
    ELSE LET e == all_elements[j - 1]
         IN  IF e.name # "table" /\ e.inning # NULL THEN e.inning
             ELSE InningBefore(j - 1)

Side(inning) ==
    IF IsTop(inning) THEN "top" ELSE IF IsBottom(inning) THEN "bottom" ELSE NULL

\* A pitching table before element j announced a pitcher while the inning
\* in force had this side.
AnnouncedFor(side, j) ==
    \E k \in 1..(j - 1) :
        /\ all_elements[k].table_type = "PITCHING"
        /\ all_elements[k].new_pitcher_id # NULL
        /\ Side(InningBefore(k)) = side

\* A valid row: it has a batter id, no stopped-early marker and an outcome
\* text the interpreter matches.
ValidRow(row) == Extractable(row) /\ ~Unparseable(ResultText(row))

\* The event of a valid row of an event table in an inning, with no
\* pitcher announced for the side.
EventOfRow(row, inning) ==
    [game_id |-> "g1", batter_player_id |-> row.batter, pitcher_player_id |-> NULL,
     inning |-> inning,
     team |-> IF Side(inning) = "top" THEN AwayCode("g1") ELSE HomeCode("g1"),
     out |-> OutCount(row.out_text), on_base |-> parse_on_base(row.bases_text),
     count |-> parse_count(row.count_text)]
    @@ [f \in Flags |-> parse_result(ResultText(row))[f]]

\* C16: an event table that follows an inning marker, with no pitching
\* announcement seen for the marker's side and nothing emitted before it,
\* yields exactly one event per valid row, in row order, each with the
\* marker's inning, the batting team of its side, no pitcher and the flags
\* of its own outcome text.
C16_EventTableAfterMarker ==
    \A j \in DOMAIN all_elements :
        (/\ elem_i = j + 1
         /\ all_elements[j].table_type = "EVENT"
         /\ InningBefore(j) # NULL
         /\ ~AnnouncedFor(Side(InningBefore(j)), j)
         /\ \A k \in 1..(j - 1) : all_elements[k].rows = << >>)
        => LET rows == SelectSeq(all_elements[j].rows, ValidRow)
           IN  all_events = [m \in DOMAIN rows |-> EventOfRow(rows[m], InningBefore(j))]

-----------------------------------------------------------------------------
(* The loop over a play-by-play of several half-innings *)

\* The half-innings of the document in its order.
InningOrder == <<"1T", "1B", "2T">>

\* The tables of a half-inning: a pitching table announcing p1 or p2 with
\* the first event of the inning, and an event table.
InningTables ==
    {Table("PITCHING", "p1", <<PlainCells("b1", <<"anda">>)>>),
     Table("PITCHING", "p2", <<PlainCells("b2", <<"anda">>)>>),
     Table("EVENT", NULL, <<PlainCells("b2", <<"yonkyuu">>)>>)}

\* The most elements of a document.
MaxElements == 6

HeadersIn(elements) == Len(SelectSeq(elements, LAMBDA e : e.name # "table"))

\* parse_playbyplay_from_url on a document that is disclosed element by
\* element as the loop reaches it.
InitInnings ==
    /\ StoreInit /\ RowIdle /\ TableIdle /\ TxnIdle /\ BatchIdle /\ ParIdle /\ AggIdle
    /\ all_elements = << >>
    /\ elem_i = 1
    /\ ChronLocals

\* The next element of the document: the header of the next half-inning,
\* or one more table of the current one.
NextElement(element) ==
    /\ elem_i = Len(all_elements) + 1
    /\ Len(all_elements) < MaxElements
    /\ IF element.name = "table"
       THEN HeadersIn(all_elements) >= 1
       ELSE /\ HeadersIn(all_elements) < Len(InningOrder)
            /\ element.inning = InningOrder[HeadersIn(all_elements) + 1]
    /\ all_elements' = Append(all_elements, element)
    /\ UNCHANGED <<elem_i, current_inning, current_team, top_inning_pitcher,
                   bottom_inning_pitcher, all_events,
                   storevars, rowvars, tablevars, txnvars>>

NextInnings ==
    \/ \E element \in InningTables \cup {Header(inning) : inning \in Innings} :
           NextElement(element)
    \/ ProcessElement

SpecInnings == InitInnings /\ [][NextInnings]_vars

\* The pitcher announced last, up to element j, while the inning in force
\* had this side; NULL when none was.
LastAnnounced(side, j) ==
    LET announcements ==
            {k \in 1..j : /\ all_elements[k].table_type = "PITCHING"
                          /\ all_elements[k].new_pitcher_id # NULL
                          /\ Side(InningBefore(k)) = side}
    IN  IF side = NULL \/ announcements = {} THEN NULL
        ELSE all_elements[CHOOSE k \in announcements :
                              \A l \in announcements : l <= k].new_pitcher_id

\* The events a table emits: one per row with a batter id and no marker.
EmittedBy(element) == Len(SelectSeq(element.rows, Extractable))

\* For every event of the first n elements, in order, the pitcher
\* announced last for the side of the inning in force at its table.
RECURSIVE AnnouncedPitchers(_)
AnnouncedPitchers(n) ==
    IF n = 0 THEN << >>
    ELSE AnnouncedPitchers(n - 1)
         \o [m \in 1..EmittedBy(all_elements[n]) |->
                LastAnnounced(Side(InningBefore(n)), n)]

\* C20: every emitted event has the pitcher announced last while the
\* inning in force had the side of the event's half-inning (its own table's
\* announcement included), null when none was: an announcement during the
\* other side's half-inning never changes it, and it persists across the
\* later half-innings of the side.
C20_PitcherOfSide ==
    /\ [k \in DOMAIN all_events |-> all_events[k].pitcher_player_id]
           = AnnouncedPitchers(elem_i - 1)
    /\ top_inning_pitcher = LastAnnounced("top", elem_i - 1)
    /\ bottom_inning_pitcher = LastAnnounced("bottom", elem_i - 1)

\* p1 is announced in the first top half, p2 in the first bottom half; the
\* event table of the second top half gives an event with pitcher p1.
C20_Witness ==
    /\ elem_i = 7
    /\ all_elements = <<Header("1T"), Table("PITCHING", "p1", <<PlainCells("b1", <<"anda">>)>>),
                        Header("1B"), Table("PITCHING", "p2", <<PlainCells("b2", <<"anda">>)>>),
                        Header("2T"), Table("EVENT", NULL, <<PlainCells("b2", <<"yonkyuu">>)>>)>>
    /\ Len(all_events) = 3
    /\ all_events[2].pitcher_player_id = "p2" /\ all_events[2].inning = "1B"
    /\ all_events[3].pitcher_player_id = "p1" /\ all_events[3].inning = "2T"

\* C21: every emitted event has the away-team code as its team when its
\* half-inning is a top half and the home-team code when it is a bottom
\* half, at every position of the element stream.
C21_BattingTeamOfHalf ==
    \A k \in DOMAIN all_events :
        /\ IsTop(all_events[k].inning) => all_events[k].team = AwayCode("g1")
        /\ IsBottom(all_events[k].inning) => all_events[k].team = HomeCode("g1")

\* Events of the first top half, the first bottom half and the second top
\* half have been emitted.
C21_Witness ==
    /\ Len(all_events) = 3
    /\ all_events[1].inning = "1T" /\ all_events[1].team = AwayCode("g1")
    /\ all_events[2].inning = "1B" /\ all_events[2].team = HomeCode("g1")
    /\ all_events[3].inning = "2T" /\ all_events[3].team = AwayCode("g1")

-----------------------------------------------------------------------------
(* The blocks of the document by their text: map_inning_notation,
   classify_table and parse_pitching_announcement *)

\* The words of the text of a block.
\*   1kaiomote 1回表, 1kaiura 1回裏, kaiomote 回表 (without inning number),
\*   kougeki 攻撃, kai 回, senpatsutoushu 先発投手, toushukoutai 投手交代,
\*   arrow →, Yamada, Tanaka, Suzuki, kantoku: texts of links, memo: a word
\*   no rule looks for; the batter ids stand for the names of the batters.
BlockSubstrings(w) ==
    CASE w = "1kaiomote"      -> {"1kaiomote", "kaiomote", "kai"}
      [] w = "1kaiura"        -> {"1kaiura", "kaiura", "kai"}
      [] w = "kaiomote"       -> {"kaiomote", "kai"}
      [] w = "senpatsutoushu" -> {"senpatsutoushu", "toushu"}
      [] w = "toushukoutai"   -> {"toushukoutai", "toushu"}
      [] OTHER                -> {w}

\* '<pattern>' in the text of a block
BlockContains(pattern, text) ==
    \E i \in DOMAIN text : pattern \in BlockSubstrings(text[i])

\* table_text.find(word): the place of the first occurrence, 0 for none.
Find(word, text) ==
    IF \E i \in DOMAIN text : text[i] = word
    THEN CHOOSE i \in DOMAIN text :
             /\ text[i] = word
             /\ \A j \in DOMAIN text : text[j] = word => i <= j
    ELSE 0

\* The inning of the group of (\d+)回表 or (\d+)回裏 in a word.
MarkerInning(w) ==
    CASE w = "1kaiomote" -> "1T"
      [] w = "1kaiura"   -> "1B"
      [] OTHER           -> NULL

\* re.search(r'(\d+)回表', text) and re.search(r'(\d+)回裏', text): the inning
\* of the first match, NULL without match.
SearchMarker(text, side) ==
    LET matches == {i \in DOMAIN text : /\ MarkerInning(text[i]) # NULL
                                        /\ side \in BlockSubstrings(text[i])}
    IN  IF matches = {} THEN NULL
        ELSE MarkerInning(text[CHOOSE i \in matches : \A j \in matches : i <= j])

\* map_inning_notation: the inning '<n>T' or '<n>B' of the text, NULL for
\* (None, None).
map_inning_notation(japanese_text) ==
    IF japanese_text = << >> THEN NULL
    ELSE IF BlockContains("kaiomote", japanese_text)
         THEN SearchMarker(japanese_text, "kaiomote")
    ELSE IF BlockContains("kaiura", japanese_text)
         THEN SearchMarker(japanese_text, "kaiura")
    ELSE NULL

\* A link of a block: its text and the player id extract_player_id_from_link
\* finds in its href (NULL: none).
Link(text, player_id) == [text |-> text, player_id |-> player_id]

RECURSIVE RowsText(_)
RowsText(rows) ==
    IF rows = << >> THEN << >>
    ELSE (IF Head(rows).batter = NULL THEN << >> ELSE <<Head(rows).batter>>)
         \o Head(rows).result_text \o RowsText(Tail(rows))

RECURSIVE RowsLinks(_)
RowsLinks(rows) ==
    IF rows = << >> THEN << >>
    ELSE (IF Head(rows).batter = NULL THEN << >>
          ELSE <<Link(Head(rows).batter, Head(rows).batter)>>)
         \o RowsLinks(Tail(rows))

\* A block of the document: a header with its text, or a table with the
\* text and the links of its heading part followed by those of its rows.
HeaderBlock(text) == [name |-> "h3", text |-> text, links |-> << >>, rows |-> << >>]

TableBlock(text, links, rows) ==
    [name |-> "table", text |-> text \o RowsText(rows),
     links |-> links \o RowsLinks(rows), rows |-> rows]

\* classify_table that looks for links before it looks for the pitcher word.
classify_table_links_first(table) ==
    IF BlockContains("kaiomote", table.text) \/ BlockContains("kaiura", table.text)
    THEN "INNING"
    ELSE IF table.links # << >> THEN "EVENT"
    ELSE IF BlockContains("toushu", table.text) THEN "PITCHING"
    ELSE "UNKNOWN"

\* classify_table: INNING, PITCHING, EVENT or UNKNOWN, by the first test
\* that succeeds.
classify_table(table) ==
    IF BlockContains("kaiomote", table.text) \/ BlockContains("kaiura", table.text)
    THEN "INNING"
    ELSE IF BlockContains("toushu", table.text) THEN "PITCHING"
    ELSE IF /\ table.links # << >>
            /\ ~(BlockContains("toushu", table.text) /\ Len(table.links) = 1)
         THEN "EVENT"
    ELSE IF BlockContains("kougeki", table.text) /\ BlockContains("kai", table.text)
         THEN "INNING"
    ELSE IF \E i \in DOMAIN table.text : MarkerInning(table.text[i]) # NULL
         THEN "INNING"
    ELSE "UNKNOWN"

\* The id of the first link of the sequence that has one, NULL for none.
FirstPlayerId(links) ==
    LET with_id == SelectSeq(links, LAMBDA l : l.player_id # NULL)
    IN  IF with_id = << >> THEN NULL ELSE Head(with_id).player_id

\* parse_pitching_announcement that takes the first link with a player id
\* of a pitching change wherever it stands.
parse_pitching_announcement_any_link(table) ==
    IF BlockContains("senpatsutoushu", table.text) \/ BlockContains("toushukoutai", table.text)
    THEN FirstPlayerId(table.links)
    ELSE NULL

\* parse_pitching_announcement: the first link with a player id of a
\* starting-pitcher announcement; else, of a pitching change, the first link
\* with a player id whose text is found behind the arrow.
parse_pitching_announcement(table) ==
    LET starting == IF BlockContains("senpatsutoushu", table.text)
                    THEN FirstPlayerId(table.links) ELSE NULL
        arrow_pos == Find("arrow", table.text)
    IN  IF starting # NULL THEN starting
        ELSE IF BlockContains("toushukoutai", table.text)
             THEN FirstPlayerId(SelectSeq(table.links,
                      LAMBDA l : Find(l.text, table.text) > arrow_pos))
        ELSE NULL

\* The element of the loop for a block: what map_inning_notation,
\* classify_table and parse_pitching_announcement make of it.
ElementOf(block) ==
    LET is_table == block.name = "table"
        table_type == IF is_table THEN classify_table(block) ELSE NULL
    IN  [name |-> block.name,
         inning |-> IF is_table THEN NULL ELSE map_inning_notation(block.text),
         table_type |-> table_type,
         new_pitcher_id |-> IF table_type = "PITCHING"
                            THEN parse_pitching_announcement(block) ELSE NULL,
         rows |-> block.rows, text |-> block.text, links |-> block.links]

\* The blocks of the documents: headers of the first top and bottom half
\* and one that names no inning; a table that names the first bottom half;
\* a starting-pitcher table with the first event of the inning; pitching
\* changes with an event, with two links behind the arrow, with a link
\* without player id behind the arrow, and without arrow; a pitching change
\* in a table that also names an inning; an event table; a table with 攻撃
\* and 回 but no side; an unknown table.
BlockPool ==
    {HeaderBlock(<<"1kaiomote">>), HeaderBlock(<<"1kaiura">>), HeaderBlock(<<"memo">>),
     TableBlock(<<"1kaiura">>, << >>, << >>),
     TableBlock(<<"senpatsutoushu", "Yamada">>, <<Link("Yamada", "p1")>>,
                <<PlainCells("b1", <<"anda">>)>>),
     TableBlock(<<"toushukoutai", "Yamada", "arrow", "Tanaka">>,
                <<Link("Yamada", "p1"), Link("Tanaka", "p2")>>,
                <<PlainCells("b2", <<"sanshin">>)>>),
     TableBlock(<<"toushukoutai", "Yamada", "arrow", "Tanaka", "Suzuki">>,
                <<Link("Yamada", "p1"), Link("Tanaka", "p2"), Link("Suzuki", "p3")>>,
                << >>),
     TableBlock(<<"toushukoutai", "Yamada", "arrow", "kantoku", "Tanaka">>,
                <<Link("Yamada", "p1"), Link("kantoku", NULL), Link("Tanaka", "p2")>>,
                << >>),
     TableBlock(<<"toushukoutai", "Suzuki">>, <<Link("Suzuki", "p3")>>, << >>),
     TableBlock(<<"1kaiomote", "toushukoutai", "arrow", "Tanaka">>,
                <<Link("Tanaka", "p2")>>, <<PlainCells("b1", <<"anda">>)>>),
     TableBlock(<< >>, << >>, <<PlainCells("b2", <<"yonkyuu">>)>>),
     TableBlock(<<"kougeki", "kai">>, << >>, << >>),
     TableBlock(<<"memo">>, << >>, << >>)}

\* parse_playbyplay_from_url on some document of up to MaxBlocks blocks.
InitBlocks ==
    /\ StoreInit /\ RowIdle /\ TableIdle /\ TxnIdle /\ BatchIdle /\ ParIdle /\ AggIdle
    /\ all_elements \in SeqsUpTo({ElementOf(block) : block \in BlockPool}, MaxBlocks)
    /\ elem_i = 1
    /\ ChronLocals

SpecBlocks == InitBlocks /\ [][NextChron]_vars

\* The block the loop processed last.
LastBlock == all_elements[elem_i - 1]

\* C22: after a block whose text has an inning-side marker with its inning
\* number was processed, header or table, the current inning is that
\* marker's, and a table with such a marker is classified INNING.
C22_MarkerBlockSetsHalfInning ==
    (elem_i > 1 /\ map_inning_notation(LastBlock.text) # NULL)
        => /\ LastBlock.name = "table" => LastBlock.table_type = "INNING"
           /\ current_inning = map_inning_notation(LastBlock.text)

\* A table without inning-side marker that announces a pitcher and has
\* rows with a plate appearance.
AnnouncesWithRows(block) ==
    /\ block.name = "table"
    /\ ~BlockContains("kaiomote", block.text) /\ ~BlockContains("kaiura", block.text)
    /\ BlockContains("toushu", block.text)
    /\ parse_pitching_announcement(block) # NULL
    /\ EmittedBy(block) > 0

\* C23: when the loop, with an inning in force, has processed a table that
\* announces a pitcher and has plate-appearance rows, the table was
\* classified PITCHING, the pitcher of the current side is the announced
\* one, and the table's rows were emitted, in order, as the last events,
\* each with the announced pitcher.
C23_AnnouncementThenRows ==
    \A j \in DOMAIN all_elements :
        (elem_i = j + 1 /\ AnnouncesWithRows(all_elements[j]) /\ InningBefore(j) # NULL)
            => LET block == all_elements[j]
                   announced == parse_pitching_announcement(block)
                   emitted == SelectSeq(block.rows, Extractable)
                   offset == Len(all_events) - Len(emitted)
               IN  /\ block.table_type = "PITCHING"
                   /\ CurrentPitcherId(current_inning, top_inning_pitcher,
                                       bottom_inning_pitcher) = announced
                   /\ offset >= 0
                   /\ \A n \in DOMAIN emitted :
                          /\ all_events[offset + n].batter_player_id = emitted[n].batter
                          /\ all_events[offset + n].pitcher_player_id = announced

\* After the starting pitcher p1 pitched to b1 in the first top half, the
\* table of the change to p2 brings the plate appearance of b2: its event
\* has p2.
C23_Witness ==
    /\ elem_i = 4
    /\ all_elements[1].name = "h3" /\ all_elements[1].inning = "1T"
    /\ all_elements[2].new_pitcher_id = "p1"
    /\ AnnouncesWithRows(all_elements[3])
    /\ all_elements[3].new_pitcher_id = "p2"
    /\ Len(all_events) = 2
    /\ all_events[1].pitcher_player_id = "p1"
    /\ all_events[2].pitcher_player_id = "p2" /\ all_events[2].batter_player_id = "b2"
    /\ top_inning_pitcher = "p2"

\* The links of a table that stand behind the arrow, in document order.
LinksAfterArrow(block) ==
    SelectSeq(block.links,
              LAMBDA l : Find(l.text, block.text) > Find("arrow", block.text))

\* A table that is nothing but a pitching change with several links, one
\* of them behind the arrow.
ChangeWithSeveralLinks(block) ==
    /\ block.name = "table" /\ block.table_type = "PITCHING"
    /\ BlockContains("toushukoutai", block.text)
    /\ Find("arrow", block.text) > 0
    /\ block.rows = << >>
    /\ Len(block.links) > 1
    /\ LinksAfterArrow(block) # << >>

\* C24: when the loop, with an inning in force, has processed a pitching
\* change with several links, the pitcher of the current side is the player
\* of the last link behind the arrow.
C24_LastLinkAfterArrow ==
    \A j \in DOMAIN all_elements :
        (elem_i = j + 1 /\ ChangeWithSeveralLinks(all_elements[j]) /\ InningBefore(j) # NULL)
            => LET after == LinksAfterArrow(all_elements[j])
               IN  CurrentPitcherId(current_inning, top_inning_pitcher,
                                    bottom_inning_pitcher) = after[Len(after)].player_id

\* C24, amended: when the loop, with an inning in force, has processed a
\* pitching change with several links, the pitcher of the current side is
\* the player of the first link behind the arrow that has a player id,
\* never that of a link before the arrow.
C24_FirstLinkAfterArrow ==
    \A j \in DOMAIN all_elements :
        (elem_i = j + 1 /\ ChangeWithSeveralLinks(all_elements[j]) /\ InningBefore(j) # NULL)
            => CurrentPitcherId(current_inning, top_inning_pitcher, bottom_inning_pitcher)
                   = FirstPlayerId(LinksAfterArrow(all_elements[j]))

\* In the first top half the change 'Yamada -> Tanaka Suzuki' was
\* processed: the pitcher is Tanaka's p2, neither Yamada's p1 nor Suzuki's p3.
C24_Witness ==
    /\ elem_i = 3
    /\ all_elements[1].name = "h3" /\ all_elements[1].inning = "1T"
    /\ ChangeWithSeveralLinks(all_elements[2])
    /\ Len(LinksAfterArrow(all_elements[2])) = 2
    /\ all_elements[2].links[1].player_id = "p1"
    /\ top_inning_pitcher = "p2"

-----------------------------------------------------------------------------
(* From the document to the event table: the loop, then upsert_events *)

\* The elements of the documents: two headers, tables of two rows with
\* different batters and outcomes, a pitching table with an event, a table
\* whose first row has no batter link, and an unknown table.
OrderPool ==
    {Header("1T"), Header("1B"),
     Table("EVENT", NULL, <<PlainCells("b1", <<"anda">>), PlainCells("b2", <<"sanshin">>)>>),
     Table("EVENT", NULL, <<PlainCells("b2", <<"yonkyuu">>), PlainCells("b1", <<"honruida">>)>>),
     Table("PITCHING", "p1", <<PlainCells("b2", <<"niruida">>)>>),
     Table("EVENT", NULL, <<Cells(5, "", "", NULL, "", <<"anda">>),
                            PlainCells("b1", <<"goro">>)>>),
     Table("UNKNOWN", NULL, << >>)}

\* The event table holds events of both games from earlier runs;
\* parse_playbyplay_from_url starts on some document of the first game.
InitOrder ==
    /\ site = [g \in Games |-> IF g = "g1" THEN InvalidDoc(g) ELSE EarlierDoc]
    /\ db_event = upsert_events(
                      upsert_events(<< >>, EarlierDoc.events),
                      <<parse_event_row(PlainCells("b2", <<"furai">>), "g1", NULL, "1T",
                                        AwayCode("g1"))>>)
    /\ db_batting = {} /\ db_pitching = {}
    /\ main_pc = "parse"
    /\ results = << >>
    /\ successfully_parsed_game_ids = << >>
    /\ hist = NoHist
    /\ all_elements \in SeqsUpTo(OrderPool, MaxBlocks)
    /\ elem_i = 1
    /\ ChronLocals
    /\ RowIdle /\ TableIdle /\ TxnIdle /\ BatchIdle /\ ParIdle /\ AggIdle

\* The loop of parse_playbyplay_from_url.
ParseElement ==
    /\ main_pc = "parse"
    /\ ProcessElement

\* The loop is over: the events it returns are handed to upsert_events.
StoreEvents ==
    /\ main_pc = "parse"
    /\ elem_i = Len(all_elements) + 1
    /\ db_event' = upsert_events(db_event, all_events)
    /\ main_pc' = "stored"
    /\ UNCHANGED <<site, db_batting, db_pitching, results,
                   successfully_parsed_game_ids, hist, batchvars, parvars, aggvars,
                   parservars>>

NextOrder == ParseElement \/ StoreEvents

SpecOrder == InitOrder /\ [][NextOrder]_vars

-----------------------------------------------------------------------------
(* The writes of the summary tables, statement by statement, and a reader *)

\* The statements a handler executes on its connection.
Delete(game_id) == [kind |-> "DELETE", game_id |-> game_id, row |-> << >>]
Insert(row) == [kind |-> "INSERT", game_id |-> row.game_id, row |-> row]
Update(key, event_stats) ==
    [kind |-> "UPDATE", game_id |-> key[1], player_id |-> key[2], row |-> event_stats]
Commit == [kind |-> "COMMIT", game_id |-> NULL, row |-> << >>]

RECURSIVE CommitAfterEach(_)
CommitAfterEach(statements) ==
    IF statements = << >> THEN << >>
    ELSE <<Head(statements), Commit>> \o CommitAfterEach(Tail(statements))

\* insert_batting_data with the commit inside the loop.
insert_batting_statements_commit_each(batting_data) ==
    CommitAfterEach(<<Delete(batting_data[1].game_id)>>
                    \o [k \in DOMAIN batting_data |-> Insert(batting_data[k])])

\* insert_batting_data: DELETE, one INSERT per record, then conn.commit().
insert_batting_statements(batting_data) ==
    <<Delete(batting_data[1].game_id)>>
    \o [k \in DOMAIN batting_data |-> Insert(batting_data[k])]
    \o <<Commit>>

\* insert_pitching_data: the same on the pitching table.
insert_pitching_statements(pitching_data) ==
    <<Delete(pitching_data[1].game_id)>>
    \o [k \in DOMAIN pitching_data |->
           Insert(pitching_data[k] @@ [c \in PitchingCounters |-> 0])]
    \o <<Commit>>

\* The keys of a dictionary in the order of its iteration.
RECURSIVE KeySeq(_)
KeySeq(keys) ==
    IF keys = {} THEN << >>
    ELSE LET key == CHOOSE x \in keys : TRUE
         IN  <<key>> \o KeySeq(keys \ {key})

\* update_batting_stats with the commit inside the loop.
update_statements_commit_each(aggregated_data, records) ==
    LET keys == KeySeq((DOMAIN aggregated_data) \cap records)
    IN  CommitAfterEach([k \in DOMAIN keys |-> Update(keys[k], aggregated_data[keys[k]])])

\* update_batting_stats / update_pitching_stats: one UPDATE per aggregated
\* key that has a record, then conn.commit().
update_statements(aggregated_data, records) ==
    LET keys == KeySeq((DOMAIN aggregated_data) \cap records)
    IN  [k \in DOMAIN keys |-> Update(keys[k], aggregated_data[keys[k]])] \o <<Commit>>

\* cursor.execute of a DELETE, INSERT or UPDATE on the rows of a table.
Execute(rows, counters, stmt) ==
    CASE stmt.kind = "DELETE" -> {r \in rows : r.game_id # stmt.game_id}
      [] stmt.kind = "INSERT" -> rows \cup {stmt.row}
      [] stmt.kind = "UPDATE" ->
             {IF r.game_id = stmt.game_id /\ r.player_id = stmt.player_id
              THEN UpdateRow(r, counters, stmt.row) ELSE r : r \in rows}

CountersOf(tbl) == IF tbl = "batting" THEN BattingCounters ELSE PitchingCounters

\* The play-by-play of the first game as parsed: a single and a walk.
TxnEvents ==
    <<parse_event_row(PlainCells("b1", <<"anda">>), "g1", "p1", "1T", AwayCode("g1")),
      parse_event_row(PlainCells("b2", <<"yonkyuu">>), "g1", "p1", "1T", AwayCode("g1"))>>

TxnDoc == Doc(TRUE, "g1", FALSE, << >>, << >>, FALSE, TRUE, TxnEvents)

\* The lineups and pitcher lists a box score of the first game yields.
TxnBattingData ==
    {<<BattingRecord("g1", "b1"), BattingRecord("g1", "b2")>>,
     <<BattingRecord("g1", "b1")>>}

TxnPitchingData ==
    {<<PitchingRecord("g1", "p1"), PitchingRecord("g1", "p2")>>}

\* The stores hold the second game and the events of the first; no handler
\* is writing.
InitTxn ==
    /\ site = [g \in Games |-> IF g = "g1" THEN TxnDoc ELSE EarlierDoc]
    /\ db_event = parse_game_data(TxnDoc, parse_game_data(EarlierDoc, EmptyStores).st).st.event
    /\ db_batting = parse_game_data(EarlierDoc, EmptyStores).st.batting
    /\ db_pitching = parse_game_data(EarlierDoc, EmptyStores).st.pitching
    /\ main_pc = "idle"
    /\ results = << >>
    /\ successfully_parsed_game_ids = << >>
    /\ hist = NoHist
    /\ RowIdle /\ TableIdle /\ ChronIdle /\ TxnIdle /\ BatchIdle /\ ParIdle /\ AggIdle

\* What a handler that hit an error raises to its caller: insert_*_data
\* catches sqlite3.Error and prints, aggregate_and_update catches Exception,
\* prints and rolls back; each then returns normally.
HandlerRaises(name) == FALSE

\* The driver around a handler: the completion message follows the call
\* unless the call raised.
CallerReport(raised) == IF raised THEN "error" ELSE "completed"

\* A handler connects and is about to execute its statements.  What readers
\* saw of earlier handlers is forgotten.
Begin(name, tbl, stmts, after) ==
    /\ txn.stmts = << >>
    /\ txn' = [name |-> name, tbl |-> tbl, stmts |-> stmts,
               before |-> IF tbl = "batting" THEN db_batting ELSE db_pitching,
               after |-> after, executed |-> 0, outcome |-> "running",
               report |-> "none"]
    /\ conn' = [open |-> TRUE, batting |-> db_batting, pitching |-> db_pitching]
    /\ reader_seen' = NoRead
    /\ UNCHANGED <<storevars, rowvars, tablevars, chronvars>>

\* BattingLineupParser(db_path).parse_single_game: insert_batting_data
BeginInsertBatting(batting_data) ==
    Begin("insert_batting_data", "batting", insert_batting_statements(batting_data),
          insert_batting_data(db_batting, batting_data))

\* PitchingParser(db_path).parse_single_game: insert_pitching_data
BeginInsertPitching(pitching_data) ==
    Begin("insert_pitching_data", "pitching", insert_pitching_statements(pitching_data),
          insert_pitching_data(db_pitching, pitching_data))

\* EventAggregator(db_path).aggregate_and_update(game_ids)
BeginUpdateBatting(game_ids) ==
    Begin("update_batting_stats", "batting",
          update_statements(aggregate_events_by_game_and_batter(db_event, game_ids),
                            RecordKeys(db_batting, game_ids)),
          BattingAggregateAndUpdate(db_event, db_batting, game_ids))

\* PitcherEventAggregator(db_path).aggregate_and_update(game_ids)
BeginUpdatePitching(game_ids) ==
    Begin("update_pitching_stats", "pitching",
          update_statements(aggregate_events_by_game_and_pitcher(db_event, game_ids),
                            RecordKeys(db_pitching, game_ids)),
          PitchingAggregateAndUpdate(db_event, db_pitching, game_ids))

\* The handler's next statement.  A DELETE, INSERT or UPDATE changes the
\* tables as the connection sees them (sqlite3 opens a transaction before
\* it); conn.commit() makes them the database.  After its last statement
\* the handler returns and the connection is closed.
ExecuteStatement ==
    /\ txn.stmts # << >>
    /\ LET stmt == Head(txn.stmts)
           last == Len(txn.stmts) = 1
           seen == IF stmt.kind = "COMMIT" THEN conn
                   ELSE [conn EXCEPT ![txn.tbl] = Execute(@, CountersOf(txn.tbl), stmt)]
       IN  /\ conn' = IF last THEN ClosedConn ELSE seen
           /\ db_batting' = IF stmt.kind = "COMMIT" THEN conn.batting ELSE db_batting
           /\ db_pitching' = IF stmt.kind = "COMMIT" THEN conn.pitching ELSE db_pitching
    /\ txn' = [txn EXCEPT !.stmts = Tail(@),
                          !.executed = @ + 1,
                          !.outcome = IF Len(txn.stmts) = 1 THEN "returned" ELSE @,
                          !.report = IF Len(txn.stmts) = 1 THEN CallerReport(FALSE) ELSE @]
    /\ UNCHANGED <<site, db_event, main_pc, results, successfully_parsed_game_ids, hist,
                   rowvars, tablevars, chronvars, reader_seen, batchvars, parvars, aggvars>>

\* The handler's next statement raises sqlite3.Error: insert_*_data prints
\* and returns, aggregate_and_update calls conn.rollback(); the caller
\* closes the connection, which drops what was not committed.
StatementFails ==
    /\ txn.stmts # << >>
    /\ txn' = [txn EXCEPT !.stmts = << >>,
                          !.outcome = "failed",
                          !.report = CallerReport(HandlerRaises(txn.name))]
    /\ conn' = ClosedConn
    /\ UNCHANGED <<storevars, rowvars, tablevars, chronvars, reader_seen>>

GameRows(rows, game_id) == {r \in rows : r.game_id = game_id}

\* A reader (get_game_batting, get_game_pitching) selects the rows of a
\* game through a connection of its own: the committed rows.
ReadGame(tbl, game_id) ==
    /\ conn.open \/ txn.name # "none"
    /\ LET rows == IF tbl = "batting" THEN db_batting ELSE db_pitching
       IN  reader_seen' =
               [tbl |-> tbl, game_id |-> game_id,
                writing |-> conn.open /\ txn.tbl = tbl,
                rows |-> GameRows(rows, game_id),
                before |-> IF txn.tbl = tbl THEN GameRows(txn.before, game_id)
                           ELSE GameRows(rows, game_id),
                after |-> IF txn.tbl = tbl THEN GameRows(txn.after, game_id)
                          ELSE GameRows(rows, game_id),
                pending |-> IF conn.open THEN GameRows(conn[tbl], game_id) ELSE {}]
    /\ UNCHANGED <<storevars, rowvars, tablevars, chronvars, conn, txn>>

NextTxn ==
    \/ \E batting_data \in TxnBattingData : BeginInsertBatting(batting_data)
    \/ \E pitching_data \in TxnPitchingData : BeginInsertPitching(pitching_data)
    \/ \E game_ids \in GameIdLists : BeginUpdateBatting(game_ids)
    \/ \E game_ids \in GameIdLists : BeginUpdatePitching(game_ids)
    \/ ExecuteStatement
    \/ StatementFails
    \/ \E tbl \in {"batting", "pitching"}, g \in Games : ReadGame(tbl, g)

SpecTxn == InitTxn /\ [][NextTxn]_vars

\* C10: what a reader selects for a game from a summary table, while a
\* handler replaces or rewrites rows of that table or after it, is the
\* game's rows as they were before the handler or as the whole handler
\* leaves them, never a state in between.
C10_ReaderSeesBeforeOrAfter ==
    reader_seen.rows \in {reader_seen.before, reader_seen.after}

\* A reader selects the first game's rows while the handler's connection
\* holds them half written.
C10_Witness ==
    /\ reader_seen.writing
    /\ reader_seen.game_id = "g1"
    /\ reader_seen.pending \notin {reader_seen.before, reader_seen.after}
    /\ reader_seen.before # reader_seen.after
    /\ reader_seen.rows = reader_seen.before

RollupHandlers == {"update_batting_stats", "update_pitching_stats"}

TxnTable == IF txn.tbl = "batting" THEN db_batting ELSE db_pitching

\* C11: when a statement of a rollup handler (the rewrite of one summary
\* table for the given games) fails, none of the handler's writes remain:
\* the table holds the rows it held when the handler started.
C11_FailedRollupLeavesNoWrites ==
    (txn.outcome = "failed" /\ txn.name \in RollupHandlers) => TxnTable = txn.before

\* The batting rollup of the first game failed after its first UPDATE; had
\* it finished, the table would have changed.
C11_Witness ==
    /\ txn.outcome = "failed" /\ txn.name = "update_batting_stats"
    /\ txn.executed = 1
    /\ txn.after # txn.before
    /\ db_batting = txn.before

\* C12: a rollup handler whose statement failed is not reported as
\* completed by the driver that called it.
C12_FailurePropagated ==
    (txn.outcome = "failed" /\ txn.name \in RollupHandlers) => txn.report # "completed"

-----------------------------------------------------------------------------
(* Properties of the stores *)

\* The events of a game in the event store, in insertion order.
EventsOf(g) == SelectSeq(db_event, LAMBDA e : e.game_id = g)

\* The last operation was a completed Rollup of game g.
RollupCompleted(g) ==
    /\ main_pc = "idle"
    /\ hist.op \in {"main", "aggregate_batch"}
    /\ g \in hist.rolled

\* C1: when main() has run twice in a row on the same URLs, with the same
\* documents and nothing else in between, the event, batting and pitching
\* stores after the second run are exactly those after the first.
C1_ReingestionIdempotent ==
    (main_pc = "idle" /\ hist.op = "main" /\ hist.rep = 2) => Stores = hist.snap

\* Two runs of main() in a row on a game with a box score and events, rolled up.
C1_Witness ==
    /\ main_pc = "idle" /\ hist.op = "main" /\ hist.rep = 2
    /\ site["g1"].box_exists /\ Len(site["g1"].events) = MaxEvents
    /\ "g1" \in hist.rolled
    /\ EventsOf("g1") = site["g1"].events
    /\ \E r \in db_batting : r.game_id = "g1" /\ r.pa > 0
    /\ \E r \in db_pitching : r.game_id = "g1" /\ r.p_h > 0

\* The counters of a batting row are the sums over the batter's events of
\* the row's game in the event store.
BattingRowMatchesEvents(r) ==
    LET rows == GroupRows(db_event, r.game_id, "batter_player_id", r.player_id)
    IN  /\ r.pa = Len(rows)
        /\ \A f \in Flags \ {"h"} : r["b_" \o f] = SumFlag(rows, f)
        /\ r.ab = r.pa - (r.b_bb + r.b_hbp + r.b_sac)

\* The counters of a pitching row are the sums over the events the pitcher
\* threw in the row's game.
PitchingRowMatchesEvents(r) ==
    LET rows == GroupRows(db_event, r.game_id, "pitcher_player_id", r.player_id)
    IN  \A f \in Flags \ {"h", "rbi"} : r["p_" \o f] = SumFlag(rows, f)

\* C2: after a completed Rollup of game g every batting and pitching row of
\* g has its counters equal to the sums of the flags over the player's
\* events of g in the event store, and at-bats = PA - (BB + HBP + SAC).
C2_CountersMatchEvents ==
    \A g \in Games :
        RollupCompleted(g) =>
            /\ \A r \in db_batting : r.game_id = g => BattingRowMatchesEvents(r)
            /\ \A r \in db_pitching : r.game_id = g => PitchingRowMatchesEvents(r)

\* C3: after a completed Rollup of game g, a batting or pitching row of g
\* whose player has no event of g in the event store has every
\* event-derived counter equal to zero.
C3_NoEventsRowZeroed ==
    \A g \in Games :
        RollupCompleted(g) =>
            /\ \A r \in db_batting :
                   (r.game_id = g
                    /\ GroupRows(db_event, g, "batter_player_id", r.player_id) = << >>)
                   => \A c \in BattingCounters : r[c] = 0
            /\ \A r \in db_pitching :
                   (r.game_id = g
                    /\ GroupRows(db_event, g, "pitcher_player_id", r.player_id) = << >>)
                   => \A c \in PitchingCounters : r[c] = 0

\* What identifies an event of these documents: batter and flags.
Signature(e) == <<e.batter_player_id, [f \in Flags |-> e[f]]>>

\* The rows of the first n elements that yield an event, in document
\* order: table after table, row after row.
RECURSIVE RowsInOrder(_)
RowsInOrder(n) ==
    IF n = 0 THEN << >>
    ELSE RowsInOrder(n - 1)
         \o (IF all_elements[n].table_type \in {"PITCHING", "EVENT"}
             THEN SelectSeq(all_elements[n].rows, Extractable)
             ELSE << >>)

\* C27: the events emitted so far are those of the extractable rows of the
\* elements processed so far, block after block and row after row; and
\* once they are stored, the rows of the game in the event table are the
\* emitted events in the same order.
C27_DocumentOrder ==
    /\ main_pc \in {"parse", "stored"} =>
           [k \in DOMAIN all_events |-> Signature(all_events[k])]
               = [k \in DOMAIN RowsInOrder(elem_i - 1) |->
                     <<RowsInOrder(elem_i - 1)[k].batter,
                       parse_result(ResultText(RowsInOrder(elem_i - 1)[k]))>>]
    /\ (main_pc = "stored" /\ all_events # << >>) => EventsOf("g1") = all_events

\* Two tables of two rows each were parsed and stored: b1 single, b2
\* strikeout, b2 walk, b1 home run, in this order in the event table.
C27_Witness ==
    /\ main_pc = "stored"
    /\ Len(all_elements) = 3
    /\ Len(EventsOf("g1")) = 4
    /\ EventsOf("g1")[1].batter_player_id = "b1" /\ EventsOf("g1")[1]["1b"] = 1
    /\ EventsOf("g1")[2].batter_player_id = "b2" /\ EventsOf("g1")[2].k = 1
    /\ EventsOf("g1")[3].batter_player_id = "b2" /\ EventsOf("g1")[3].bb = 1
    /\ EventsOf("g1")[4].batter_player_id = "b1" /\ EventsOf("g1")[4].hr = 1

\* C26: after a completed Rollup of game g, every batter and every pitcher
\* with an event of g in the event store has a batting or pitching row of g
\* whose counters are the sums over the player's events.
C26_RowForEveryPlayerWithEvents ==
    \A g \in Games :
        RollupCompleted(g) =>
            \A i \in DOMAIN db_event :
                db_event[i].game_id = g =>
                    /\ \E r \in db_batting :
                           /\ r.game_id = g
                           /\ r.player_id = db_event[i].batter_player_id
                           /\ BattingRowMatchesEvents(r)
                    /\ db_event[i].pitcher_player_id # NULL =>
                           \E r \in db_pitching :
                               /\ r.game_id = g
                               /\ r.player_id = db_event[i].pitcher_player_id
                               /\ PitchingRowMatchesEvents(r)

\* C4: when aggregate_batch has run twice or more in a row with the same
\* game list, with no other operation in between, the stores are those its
\* first run left.
C4_RollupIdempotent ==
    (hist.op = "aggregate_batch" /\ hist.rep = 2) => Stores = hist.snap

\* The Rollup of the first game run twice on rows that have events.
C4_Witness ==
    /\ hist.op = "aggregate_batch" /\ hist.rep = 2
    /\ "g1" \in hist.rolled
    /\ \E r \in db_batting : r.game_id = "g1" /\ r.pa > 0 /\ r.b_h > 0
    /\ \E r \in db_pitching : r.game_id = "g1" /\ r.p_h > 0

\* C5: after eventfiles has handed the events of the play-by-play page of
\* game g to upsert_events, the event store holds for g exactly those
\* events, also when the page has fewer events than were stored or none.
C5_EventsReplaced ==
    \A g \in Games :
        (hist.op = "eventfiles" /\ hist.arg = <<g>>)
            => EventsOf(g) = parse_playbyplay_from_url(site[g])

-----------------------------------------------------------------------------
(* main() over a batch of URLs, some of which meet an error *)

\* Where the parsing of a URL raises an exception: nowhere, in the box score
\* block (a parser's constructor, a parser) or in the play-by-play block
\* (requests.get, parse_playbyplay_from_url, upsert_events).
Raised == {"none", "box", "playbyplay"}

\* An exception raised inside parse_game_data that leaves it, were the
\* blocks not wrapped in try/except.
EscapesUncaught(raised) == raised # "none"

\* Whether an exception raised inside parse_game_data leaves it: both
\* blocks are wrapped in try/except Exception, none does.
Escapes(raised) == FALSE

\* parse_game_data on a URL whose parsing raises: the except clause of the
\* block prints and the block counts nothing and writes nothing.
parse_game_data_raising(doc, st, raised) ==
    parse_game_data([doc EXCEPT !.box_exists = @ /\ raised # "box",
                                !.playbyplay_exists = @ /\ raised # "playbyplay"], st)

\* The pages a game of the batch can have: box score and play-by-play,
\* one of the two, or a URL without game id.
BatchDocs(game_id) ==
    {Doc(TRUE, game_id, TRUE, box[1], box[2], TRUE, TRUE, ev) :
         box \in Boxes(game_id), ev \in {e \in EventLists(game_id) : Len(e) = MaxEvents}}
    \cup {Doc(TRUE, game_id, TRUE, box[1], box[2], TRUE, FALSE, << >>) : box \in Boxes(game_id)}
    \cup {InvalidDoc(game_id)}

\* The command lines: up to MaxUrls URLs of the two games.
BatchUrls == SeqsUpTo([game : Games, raised : Raised], MaxUrls) \ {<< >>}

\* main() starts on an empty database.
InitBatch ==
    /\ site \in [Games -> UNION {BatchDocs(g) : g \in Games}]
    /\ \A g \in Games : site[g] \in BatchDocs(g)
    /\ db_event = << >> /\ db_batting = {} /\ db_pitching = {}
    /\ main_pc = "loop"
    /\ results = << >>
    /\ successfully_parsed_game_ids = << >>
    /\ hist = NoHist
    /\ urls \in BatchUrls
    /\ RowIdle /\ TableIdle /\ ChronIdle /\ TxnIdle /\ ParIdle /\ AggIdle

\* main(): one iteration of the loop over the URLs; an exception that left
\* parse_game_data would end the process.
BatchParse ==
    /\ main_pc = "loop"
    /\ Len(results) < Len(urls)
    /\ LET url == urls[Len(results) + 1]
           r == parse_game_data_raising(site[url.game], Stores, url.raised)
       IN  IF Escapes(url.raised)
           THEN /\ main_pc' = "crashed"
                /\ UNCHANGED <<db_event, db_batting, db_pitching, results,
                               successfully_parsed_game_ids>>
           ELSE /\ SetStores(r.st)
                /\ results' = Append(results, <<url.game, r.success>>)
                /\ successfully_parsed_game_ids' =
                       IF r.success THEN Append(successfully_parsed_game_ids, url.game)
                       ELSE successfully_parsed_game_ids
                /\ main_pc' = "loop"
    /\ UNCHANGED <<site, hist, urls, rowvars, tablevars, chronvars, txnvars, parvars, aggvars>>

\* main(): the summary of the results and the aggregation of the parsed
\* games after the last URL.
BatchSummary ==
    /\ main_pc = "loop"
    /\ Len(results) = Len(urls)
    /\ LET ids == successfully_parsed_game_ids
       IN  SetStores(IF ids # << >> THEN RunAggregation(Stores, ids) ELSE Stores)
    /\ main_pc' = "end"
    /\ UNCHANGED <<site, results, successfully_parsed_game_ids, hist, urls,
                   rowvars, tablevars, chronvars, txnvars, parvars, aggvars>>

NextBatch == BatchParse \/ BatchSummary

SpecBatch == InitBatch /\ [][NextBatch]_vars

\* The result of a URL parsed on its own.
OwnResult(url) ==
    <<url.game, parse_game_data_raising(site[url.game], EmptyStores, url.raised).success>>

AggregationStep == main_pc = "loop" /\ main_pc' = "end"

\* The parse of the game reported success in this run.
ReportedSuccess(g) == \E k \in DOMAIN results : results[k] = <<g, TRUE>>

\* The batting and pitching rows and the events of the game are in the
\* stores (the run started on an empty database: this run wrote them).
WrittenInRun(g) ==
    /\ \E r \in db_batting : r.game_id = g
    /\ \E r \in db_pitching : r.game_id = g
    /\ EventsOf(g) # << >>

\* The games the aggregation step runs the Rollup for.
RolledUpInRun == {successfully_parsed_game_ids[k] : k \in DOMAIN successfully_parsed_game_ids}

\* The aggregation step runs for successfully parsed games only, leaves
\* the rows of the other games alone, and leaves the summary stores alone
\* when no game was parsed successfully.
RollupOnlyAfterSuccess ==
    /\ \A g \in RolledUpInRun : ReportedSuccess(g)
    /\ \A g \in Games \ RolledUpInRun :
           /\ {r \in db_batting' : r.game_id = g} = {r \in db_batting : r.game_id = g}
           /\ {r \in db_pitching' : r.game_id = g} = {r \in db_pitching : r.game_id = g}
    /\ RolledUpInRun = {} => db_batting' = db_batting /\ db_pitching' = db_pitching

\* C30: when the aggregation step of a batch run runs the Rollup for a
\* game, the game's placeholder rows and events have been written in this
\* run and its parse reported success; it runs for no other game, and when
\* no game succeeded the summary stores are unchanged by the step.
C30_RollupAfterWrites ==
    [][AggregationStep =>
          /\ \A g \in RolledUpInRun : WrittenInRun(g)
          /\ RollupOnlyAfterSuccess]_vars

-----------------------------------------------------------------------------
(* Two runs of main(), one per game, on the same database at the same time *)

\* The pages of a game that is played: the box score, and a play-by-play
\* with any of the event lists.
ParDocs(game_id) ==
    {Doc(TRUE, game_id, TRUE, box[1], box[2], TRUE, ev # << >>, ev) :
         box \in Boxes(game_id), ev \in EventLists(game_id)}

\* The pages of a game as an earlier run found them.
ParEarlierDoc(game_id) ==
    Doc(TRUE, game_id, TRUE, <<BattingRecord(game_id, "b1")>>,
        <<PitchingRecord(game_id, "p1")>>, TRUE, TRUE,
        <<parse_event_row(PlainCells("b1", <<"anda">>), game_id, "p1", "1T",
                          AwayCode(game_id))>>)

\* main() with one URL: parse_game_data, then the aggregation of the game
\* when it was parsed.
RunGame(doc, st) ==
    LET r == parse_game_data(doc, st)
    IN  IF r.success THEN RunAggregation(r.st, <<doc.game_id>>) ELSE r.st

\* The runs of main() for the games of a list, one after the other.
RECURSIVE Sequential(_, _, _)
Sequential(order, docs, st) ==
    IF order = << >> THEN st
    ELSE Sequential(Tail(order), docs, RunGame(docs[Head(order)], st))

\* Both games are in the database from earlier runs, or none is.
ParStarts ==
    {EmptyStores,
     Sequential(<<"g1", "g2">>, [g \in Games |-> ParEarlierDoc(g)], EmptyStores)}

\* The store operations of one run, in the order of the code: three
\* handlers of parse_game_data, then for each aggregator its SELECTs and
\* its UPDATEs with the commit.
ParOps ==
    <<"insert_batting_data", "insert_pitching_data", "upsert_events",
      "batting_read", "update_batting_stats", "pitching_read", "update_pitching_stats">>

InitPar ==
    /\ site \in [Games -> UNION {ParDocs(g) : g \in Games}]
    /\ \A g \in Games : site[g] \in ParDocs(g)
    /\ par_start \in ParStarts
    /\ db_event = par_start.event
    /\ db_batting = par_start.batting
    /\ db_pitching = par_start.pitching
    /\ main_pc = "idle"
    /\ results = << >>
    /\ successfully_parsed_game_ids = << >>
    /\ hist = NoHist
    /\ par_pc = [g \in Games |-> 0]
    /\ par_agg = [g \in Games |-> << >>]
    /\ par_rec = [g \in Games |-> {}]
    /\ RowIdle /\ TableIdle /\ ChronIdle /\ TxnIdle /\ BatchIdle /\ AggIdle

\* The next store operation of the run for game g.  Each handler's
\* statements are one transaction of the database.
ParStep(g) ==
    /\ par_pc[g] < Len(ParOps)
    /\ LET op == ParOps[par_pc[g] + 1]
           doc == site[g]
           events == parse_playbyplay_from_url(doc)
       IN  /\ db_batting' =
                  IF op = "insert_batting_data"
                  THEN insert_batting_data(db_batting, doc.batting_data)
                  ELSE IF op = "update_batting_stats"
                  THEN update_batting_stats(db_batting, par_agg[g], par_rec[g])
                  ELSE db_batting
           /\ db_pitching' =
                  IF op = "insert_pitching_data"
                  THEN insert_pitching_data(db_pitching, doc.pitching_data)
                  ELSE IF op = "update_pitching_stats"
                  THEN update_pitching_stats(db_pitching, par_agg[g], par_rec[g])
                  ELSE db_pitching
           /\ db_event' =
                  IF op = "upsert_events" /\ doc.playbyplay_exists
                  THEN upsert_events(db_event, events)
                  ELSE db_event
           /\ par_agg' =
                  [par_agg EXCEPT ![g] =
                      IF op = "batting_read"
                      THEN aggregate_events_by_game_and_batter(db_event, <<g>>)
                      ELSE IF op = "pitching_read"
                      THEN aggregate_events_by_game_and_pitcher(db_event, <<g>>)
                      ELSE << >>]
           /\ par_rec' =
                  [par_rec EXCEPT ![g] =
                      IF op = "batting_read" THEN RecordKeys(db_batting, <<g>>)
                      ELSE IF op = "pitching_read" THEN RecordKeys(db_pitching, <<g>>)
                      ELSE {}]
    /\ par_pc' = [par_pc EXCEPT ![g] = @ + 1]
    /\ UNCHANGED <<site, main_pc, results, successfully_parsed_game_ids, hist, par_start,
                   rowvars, tablevars, chronvars, txnvars, batchvars, aggvars>>

NextPar == \E g \in Games : ParStep(g)

SpecPar == InitPar /\ [][NextPar]_vars

\* The rows of one game in the three tables.
RowsOfGame(st, g) ==
    [event |-> SelectSeq(st.event, LAMBDA e : e.game_id = g),
     batting |-> {r \in st.batting : r.game_id = g},
     pitching |-> {r \in st.pitching : r.game_id = g}]

\* Two databases hold the same rows: per game the same events in the same
\* order, and the same summary rows.
SameStores(st1, st2) ==
    /\ \A g \in Games : RowsOfGame(st1, g) = RowsOfGame(st2, g)
    /\ Len(st1.event) = Len(st2.event)

ParDone == \A g \in Games : par_pc[g] = Len(ParOps)

\* C15: when two runs, one per game, have interleaved their store
\* operations in any way, the stores hold the rows that the two runs leave
\* one after the other, in either order; and no store operation of one
\* run deletes or changes a row of the other run's game.
C15_ConcurrentGamesIndependent ==
    /\ [](ParDone =>
             /\ SameStores(Stores, Sequential(<<"g1", "g2">>, site, par_start))
             /\ SameStores(Stores, Sequential(<<"g2", "g1">>, site, par_start)))
    /\ [][\A g \in Games :
             par_pc'[g] # par_pc[g]
                 => \A h \in Games \ {g} :
                        RowsOfGame([event |-> db_event', batting |-> db_batting',
                                    pitching |-> db_pitching'], h)
                            = RowsOfGame(Stores, h)]_vars

\* Both runs are done on a database that held both games from earlier
\* runs: each game has its new events and rolled-up rows, and the second
\* game's events were written before the first game's.
C15_Witness ==
    /\ ParDone
    /\ par_start # EmptyStores
    /\ \A g \in Games :
           /\ Len(site[g].events) = MaxEvents
           /\ RowsOfGame(Stores, g).event = site[g].events
           /\ RowsOfGame(Stores, g) # RowsOfGame(par_start, g)
           /\ \E r \in db_batting : r.game_id = g /\ r.pa > 0
    /\ Head(db_event).game_id = "g2" /\ db_event[Len(db_event)].game_id = "g1"

-----------------------------------------------------------------------------
(* The batting aggregation on its own *)

\* The plate appearances of the event table: of batter b1 in the first
\* game a single, a walk, a hit by pitch, a sacrifice fly, a double and a
\* home run; a single of b2; a single of b1 in the second game.
AggEventPool ==
    {parse_event_row(PlainCells("b1", text), "g1", "p1", "1T", AwayCode("g1")) :
        text \in {<<"anda">>, <<"yonkyuu">>, <<"shikyuu">>, <<"gihi">>,
                  <<"niruida">>, <<"honruida">>}}
    \cup {parse_event_row(PlainCells("b2", <<"anda">>), "g1", "p1", "1T", AwayCode("g1")),
          parse_event_row(PlainCells("b1", <<"anda">>), "g2", "p1", "1T", AwayCode("g2"))}

\* The most events the event table holds.
MaxStored == 3

\* A call of aggregate_events_by_game_and_batter on some event table.
InitAgg ==
    /\ site = [g \in Games |-> IF g = "g1" THEN InvalidDoc(g) ELSE EarlierDoc]
    /\ db_event \in SeqsUpTo(AggEventPool, MaxStored)
    /\ db_batting = {} /\ db_pitching = {}
    /\ main_pc = "idle"
    /\ results = << >>
    /\ successfully_parsed_game_ids = << >>
    /\ hist = NoHist
    /\ agg_pc = "call"
    /\ agg_game_ids \in {<< >>, <<"g1">>}
    /\ agg_data = << >>
    /\ RowIdle /\ TableIdle /\ ChronIdle /\ TxnIdle /\ BatchIdle /\ ParIdle

Aggregate ==
    /\ agg_pc = "call"
    /\ agg_data' = aggregate_events_by_game_and_batter(db_event, agg_game_ids)
    /\ agg_pc' = "done"
    /\ UNCHANGED <<site, db_event, db_batting, db_pitching, main_pc, results,
                   successfully_parsed_game_ids, hist, agg_game_ids,
                   rowvars, tablevars, chronvars, txnvars, batchvars, parvars>>

NextAgg == Aggregate

SpecAgg == InitAgg /\ [][NextAgg]_vars

\* How many of the events have the flag.
CountFlag(events, f) == Cardinality({i \in DOMAIN events : events[i][f] = 1})

\* The flags of an event that are set.
FlagsSet(e) == {f \in Flags : e[f] # 0}

\* C18: for every (game, batter) of the aggregated games with an event,
\* the aggregation has plate appearances = the number of the group's
\* events, at-bats = plate appearances - (walks + hit-by-pitch +
\* sacrifices) and hits = singles + doubles + triples + home runs; a
\* single and a walk of one batter give pa 2, ab 1, h 1, 1b 1, bb 1.
C18_PlateAppearancesAtBatsHits ==
    agg_pc = "done" =>
        /\ DOMAIN agg_data =
               {<<db_event[i].game_id, db_event[i].batter_player_id>> :
                   i \in {k \in DOMAIN db_event : InGameIds(db_event[k].game_id, agg_game_ids)}}
        /\ \A key \in DOMAIN agg_data :
               LET events == SelectSeq(db_event, LAMBDA e : e.game_id = key[1]
                                                   /\ e.batter_player_id = key[2])
                   stats == agg_data[key]
               IN  /\ stats.pa = Len(events)
                   /\ stats.ab = Len(events) - (CountFlag(events, "bb")
                                                + CountFlag(events, "hbp")
                                                + CountFlag(events, "sac"))
                   /\ stats.b_h = CountFlag(events, "1b") + CountFlag(events, "2b")
                                  + CountFlag(events, "3b") + CountFlag(events, "hr")
                   /\ (/\ Len(events) = 2
                       /\ \E i \in 1..2 : FlagsSet(events[i]) = {"h", "1b"}
                       /\ \E i \in 1..2 : FlagsSet(events[i]) = {"bb"})
                      => /\ stats.pa = 2 /\ stats.ab = 1 /\ stats.b_h = 1
                         /\ stats.b_1b = 1 /\ stats.b_bb = 1

\* The aggregation of a single and a walk of b1 and a single of b2.
C18_Witness ==
    /\ agg_pc = "done"
    /\ Len(db_event) = 3
    /\ FlagsSet(db_event[1]) = {"h", "1b"} /\ db_event[1].batter_player_id = "b1"
    /\ db_event[2].batter_player_id = "b2"
    /\ FlagsSet(db_event[3]) = {"bb"} /\ db_event[3].batter_player_id = "b1"
    /\ agg_data[<<"g1", "b1">>].pa = 2
    /\ agg_data[<<"g1", "b1">>].ab = 1
    /\ agg_data[<<"g1", "b1">>].b_h = 1

\* How many of the four hit-type flags of an event are set.
HitTypes(e) == e["1b"] + e["2b"] + e["3b"] + e["hr"]

\* C28: every event of the event table has the hit flag set exactly when
\* exactly one of single, double, triple, home run is set; and for every
\* (game, batter) the aggregation's hits, derived from the four hit-type
\* flags, are the number of the group's events with the hit flag.
C28_HitFlagIsOneHitType ==
    /\ \A i \in DOMAIN db_event :
           /\ db_event[i].h \in {0, 1}
           /\ db_event[i].h = 1 <=> HitTypes(db_event[i]) = 1
    /\ agg_pc = "done" =>
           \A key \in DOMAIN agg_data :
               agg_data[key].b_h =
                   CountFlag(SelectSeq(db_event, LAMBDA e : e.game_id = key[1]
                                                   /\ e.batter_player_id = key[2]), "h")

\* The aggregation of a home run, a double and a walk of b1: two hits.
C28_Witness ==
    /\ agg_pc = "done"
    /\ Len(db_event) = 3
    /\ \A i \in 1..3 : db_event[i].batter_player_id = "b1" /\ db_event[i].game_id = "g1"
    /\ db_event[1].hr = 1 /\ db_event[1].h = 1
    /\ db_event[2]["2b"] = 1 /\ db_event[2].h = 1
    /\ db_event[3].bb = 1 /\ db_event[3].h = 0
    /\ agg_data[<<"g1", "b1">>].b_h = 2

\* A step that is a Rollup: the aggregation at the end of main(), or
\* aggregate_batch.
RollupStep ==
    /\ site' = site /\ main_pc' = "idle"
    /\ \/ main_pc = "loop" /\ hist'.op = "main"
       \/ main_pc = "idle" /\ hist'.op = "aggregate_batch"

\* The row of the table with the key of r.
SameKey(r, q) == q.game_id = r.game_id /\ q.player_id = r.player_id

\* The table after the step has the rows of the table before it, key by
\* key, with every column but the counters unchanged, and the rows of the
\* games not in the set entirely unchanged.
OnlyCountersChanged(before, after, counters, rolled) ==
    /\ Cardinality(after) = Cardinality(before)
    /\ \A r \in before :
           \E q \in after :
               /\ SameKey(r, q)
               /\ \A c \in (DOMAIN r) \ counters : q[c] = r[c]
               /\ r.game_id \notin rolled => q = r

C13_UnidentifiableNothingWritten ==
    [][(~site["g1"].is_valid
        /\ (Len(results') > Len(results) \/ hist'.op = "eventfiles"))
       => (Stores' = Stores /\ site' = site)]_vars

\* main() has just failed on the first game, whose page holds a row but
\* whose URL yields no game id; the stores hold rows of that game from an
\* earlier run.
C13_Witness ==
    /\ ~site["g1"].is_valid /\ site["g1"].events # << >>
    /\ main_pc = "loop" /\ results = << <<"g1", FALSE>> >>
    /\ EventsOf("g1") # << >>
    /\ \E r \in db_batting : r.game_id = "g1"

=============================================================================
